---- MODULE Spec2Model ----
(***************************************************************************)
(* A model of the product export pipeline (warranty rows -> catalog        *)
(* products): attribute classification and variant assembly, image         *)
(* location / discovery / cached parallel fetch, remote submission with    *)
(* retry, and the per-group batch loop.                                    *)
(*                                                                         *)
(* Text is modelled as a sequence of one-character strings, so that        *)
(* slicing, padding, case folding, parsing and pattern matching are        *)
(* computed character by character as the code computes them.              *)
(***************************************************************************)
EXTENDS Integers, Sequences, FiniteSets, TLC

VARIABLES
    \* ---- image location and discovery by name (S3Client / ImageValidator)
    dpc,            \* "idle" | "start" | "located" | "named"
    image_sku,      \* the image key asked for
    filename,       \* a candidate filename listed under the key's prefix
    s3_path,        \* result of construct_s3_path
    name_ok,        \* result of the by-name checks of fetch_images_for_sku
    \* ---- retry engine (ErrorHandler.execute_with_retry)
    rpc,            \* "idle" | "call" | "sleep" | "returned" | "raised"
    attempt,        \* loop variable of execute_with_retry
    calls,          \* outcomes of the invocations of the wrapped operation
    sleeps,         \* durations passed to time.sleep, in milliseconds
    caught,         \* the error caught by the current except clause
    r_out,          \* what execute_with_retry returned or raised
    r_max,          \* config.processing.max_retries of this run
    \* ---- group transformation (DataTransformer.transform_group_data)
    tpc,            \* "idle" | "start" | "done"
    group_data,     \* group_data['products']: the rows of the group, in input order
    transformed,    \* what transform_group_data returned or raised
    \* ---- remote submission (ShopifyManager.create_or_update_product)
    spc,            \* "idle" | "start" | "done"
    s_product,      \* the product handed to create_or_update_product
    submitted,      \* what create_or_update_product returned or raised, and its requests
    \* ---- batch loop (GroupIDProcessor.process_group_ids)
    bpc,            \* "idle" | "loop" | "done" | "raised"
    group_ids,      \* the list handed to process_group_ids
    dry_run,        \* its dry_run flag
    db,             \* what the database answers for each group id
    results,        \* the local list results, then the returned list
    \* ---- cached parallel image fetch (ImageHandler.fetch_images_for_group)
    ipc,            \* "idle" | "between" | "batch"
    bucket,         \* the objects in the bucket
    image_cache,    \* ImageHandler.image_cache
    fetch_calls,    \* the keys S3Client.fetch_images_for_sku was invoked with, in order
    cache_writes,   \* the keys whose cache entry was assigned, in order
    missing_log,    \* the entries appended to the missing-images log
    batch,          \* the call of fetch_images_for_group in progress
    history,        \* the calls of fetch_images_for_group that returned
    \* ---- a group from validation on (GroupIDProcessor._process_single_group_id)
    gpc,            \* "idle" | "loop" | "done"
    shopify_datas,  \* per group of the list: the shopify_data its transformation returned
    g_dry_run,      \* the dry_run flag of the run
    g_results,      \* the local list results of process_group_ids
    g_submitted,    \* per processed group: what its submission did at the remote
    \* ---- pacing of the remote calls (RateLimiter, ShopifyManager)
    ppc,            \* "idle" | "enter" | "create" | "publish" | "left"
    now,            \* time.time(), in milliseconds
    last_request_time,      \* RateLimiter.last_request_time
    requests_per_second,    \* RateLimiter.requests_per_second
    requests,       \* the remote calls made so far: kind, start and end time
    p_attempt,      \* loop variable of execute_with_retry in the current submission
    p_count,        \* the calls of create_or_update_product so far
    \* ---- the variant loop of transform_group_data (DataTransformer)
    apc,            \* "idle" | "start" | "loop" | "raised" | "done"
    a_products,     \* products: the rows of the group
    a_attrs,        \* dynamic_attributes
    a_index,        \* the number of rows the loop has handled
    a_variants,     \* shopify_product['variants']
    a_seen,         \* seen_combinations
    a_skipped,      \* the rows the loop logged as duplicates
    a_options,       \* shopify_product['productOptions']
    \* ---- the worker pool of fetch_images_for_group (ImageHandler)
    wpc,            \* "idle" | "start" | "pool" | "done"
    w_products,     \* the rows of the group: No_ and Image_SKU
    w_mapping,      \* image_sku_mapping, as the sequence of its items
    w_tasks,        \* per submitted task: "queued" | "check" | "fetch" | "store" | "done"
    w_cache,        \* the keys of self.image_cache
    w_max,           \* max_workers
    \* ---- one call of S3Client.fetch_images_for_sku
    fpc,            \* "idle" | "start" | "done"
    f_objects,      \* the objects in the bucket
    f_sku,          \* image_sku
    f_result        \* what the call returned or raised

NULL == "None"          \* None, where the value is otherwise a string
None == <<>>            \* Optional[int]: None, or Some(n)
Some(n) == <<n>>

dvars == <<dpc, image_sku, filename, s3_path, name_ok>>
rvars == <<rpc, attempt, calls, sleeps, caught, r_out, r_max>>
tvars == <<tpc, group_data, transformed>>
svars == <<spc, s_product, submitted>>
bvars == <<bpc, group_ids, dry_run, db, results>>
ivars == <<ipc, bucket, image_cache, fetch_calls, cache_writes, missing_log, batch, history>>
gvars == <<gpc, shopify_datas, g_dry_run, g_results, g_submitted>>
pvars == <<ppc, now, last_request_time, requests_per_second, requests, p_attempt, p_count>>
avars == <<apc, a_products, a_attrs, a_index, a_variants, a_seen, a_skipped, a_options>>
wvars == <<wpc, w_products, w_mapping, w_tasks, w_cache, w_max>>
fvars == <<fpc, f_objects, f_sku, f_result>>
vars == <<dvars, rvars, tvars, svars, bvars, ivars, gvars, pvars, avars, wvars, fvars>>
\* what a step of one component leaves alone
notD == <<rvars, tvars, svars, bvars, ivars, gvars, pvars, avars, wvars, fvars>>
notR == <<dvars, tvars, svars, bvars, ivars, gvars, pvars, avars, wvars, fvars>>
notT == <<dvars, rvars, svars, bvars, ivars, gvars, pvars, avars, wvars, fvars>>
notS == <<dvars, rvars, tvars, bvars, ivars, gvars, pvars, avars, wvars, fvars>>
notB == <<dvars, rvars, tvars, svars, ivars, gvars, pvars, avars, wvars, fvars>>
notI == <<dvars, rvars, tvars, svars, bvars, gvars, pvars, avars, wvars, fvars>>
notG == <<dvars, rvars, tvars, svars, bvars, ivars, pvars, avars, wvars, fvars>>
notP == <<dvars, rvars, tvars, svars, bvars, ivars, gvars, avars, wvars, fvars>>
notA == <<dvars, rvars, tvars, svars, bvars, ivars, gvars, pvars, wvars, fvars>>
notW == <<dvars, rvars, tvars, svars, bvars, ivars, gvars, pvars, avars, fvars>>
notF == <<dvars, rvars, tvars, svars, bvars, ivars, gvars, pvars, avars, wvars>>

-----------------------------------------------------------------------------
(* Characters and text                                                      *)

Digits == <<"0", "1", "2", "3", "4", "5", "6", "7", "8", "9">>
LowerLetters == <<"a", "b", "c", "d", "e", "f", "g", "h", "i", "j", "k", "l", "m",
                  "n", "o", "p", "q", "r", "s", "t", "u", "v", "w", "x", "y", "z">>
UpperLetters == <<"A", "B", "C", "D", "E", "F", "G", "H", "I", "J", "K", "L", "M",
                  "N", "O", "P", "Q", "R", "S", "T", "U", "V", "W", "X", "Y", "Z">>

Range(s) == {s[i] : i \in DOMAIN s}
IndexIn(c, s) == CHOOSE i \in DOMAIN s : s[i] = c

IsDigit(c) == c \in Range(Digits)
IsLower(c) == c \in Range(LowerLetters)
IsUpper(c) == c \in Range(UpperLetters)
\* \w of the re module, restricted to ASCII
IsWordChar(c) == IsDigit(c) \/ IsLower(c) \/ IsUpper(c) \/ c = "_"

\* str.lower / str.upper on one character
LowerChar(c) == IF IsUpper(c) THEN LowerLetters[IndexIn(c, UpperLetters)] ELSE c
UpperChar(c) == IF IsLower(c) THEN UpperLetters[IndexIn(c, LowerLetters)] ELSE c
Lower(s) == [i \in DOMAIN s |-> LowerChar(s[i])]

\* s[a:b] of Python with 0 <= a, b (0-based, b exclusive, clipped to the length)
Slice(s, a, b) ==
    LET hi == IF b < Len(s) THEN b ELSE Len(s)
    IN  IF a >= hi THEN <<>> ELSE SubSeq(s, a + 1, hi)

StartsWith(s, p) == Len(p) <= Len(s) /\ SubSeq(s, 1, Len(p)) = p

\* text rendered as one string, for reading traces
RECURSIVE Str(_)
Str(s) == IF s = <<>> THEN "" ELSE Head(s) \o Str(Tail(s))

RECURSIVE Repeat(_, _)
Repeat(c, n) == IF n <= 0 THEN <<>> ELSE <<c>> \o Repeat(c, n - 1)

\* str.ljust(width, fill)
LJust(s, width, fill) == s \o Repeat(fill, width - Len(s))

AllDigits(s) == s # <<>> /\ \A i \in DOMAIN s : IsDigit(s[i])
AllWord(s) == s # <<>> /\ \A i \in DOMAIN s : IsWordChar(s[i])

RECURSIVE DecimalValue(_)
\* int() of a text of decimal digits
DecimalValue(s) ==
    IF s = <<>> THEN 0
    ELSE 10 * DecimalValue(SubSeq(s, 1, Len(s) - 1)) + (IndexIn(s[Len(s)], Digits) - 1)

-----------------------------------------------------------------------------
(* Configuration (ImagesConfig defaults)                                    *)

base_directory == <<"s", "o", "r", "t", "e", "d", "-", "m", "e", "d", "i", "a">>
accepted_extensions ==
    { <<".", "j", "p", "g">>, <<".", "j", "p", "e", "g">>, <<".", "p", "n", "g">>,
      <<".", "g", "i", "f">>, <<".", "w", "e", "b", "p">> }
variation_suffix == <<"a">>
min_width == 200
min_height == 200

-----------------------------------------------------------------------------
(* S3Client.construct_s3_path                                               *)

BadPad_construct_s3_path(sku) ==
    LET sku_prefix == IF Len(sku) >= 6 THEN Slice(sku, 0, 6) ELSE sku
        padded == LJust(sku_prefix, 6, "0")
    IN  base_directory \o <<"/">> \o Slice(sku_prefix, 0, 2) \o <<"/">>
            \o Slice(sku_prefix, 2, 4) \o <<"/">> \o Slice(padded, 4, 6) \o <<"/">>

construct_s3_path(sku) ==
    LET sku_prefix == IF Len(sku) >= 6 THEN Slice(sku, 0, 6) ELSE sku
        padded == LJust(sku_prefix, 6, "0")
        segment1 == Slice(padded, 0, 2)
        segment2 == Slice(padded, 2, 4)
        segment3 == Slice(padded, 4, 6)
    IN  base_directory \o <<"/">> \o segment1 \o <<"/">> \o segment2
            \o <<"/">> \o segment3 \o <<"/">>

-----------------------------------------------------------------------------
(* ImageValidator                                                           *)

\* os.path.splitext(p)[1] for a path without "/": the text from the last dot,
\* unless only dots precede it
SplitExt(p) ==
    LET dots == {i \in DOMAIN p : p[i] = "."}
    IN  IF dots = {} THEN <<>>
        ELSE LET d == CHOOSE i \in dots : \A j \in dots : j <= i
             IN  IF \E i \in 1..(d - 1) : p[i] # "." THEN SubSeq(p, d, Len(p)) ELSE <<>>

is_valid_image_type(fname) == SplitExt(Lower(fname)) \in accepted_extensions

validate_image_sku_match(fname, sku) == StartsWith(fname, sku \o <<"-">>)

\* text matches  (\d+){variation_suffix}-\d+\.\w+  in full; n1 digits, then the
\* suffix, "-", n2 digits, ".", word characters to the end
MatchesTail(t) ==
    \E n1 \in 1..Len(t) : \E n2 \in 1..Len(t) :
        LET a == n1 + Len(variation_suffix)     \* end of the suffix
            b == a + 1 + n2                     \* end of the second number
        IN  /\ b + 2 <= Len(t)
            /\ AllDigits(SubSeq(t, 1, n1))
            /\ SubSeq(t, n1 + 1, a) = variation_suffix
            /\ t[a + 1] = "-"
            /\ AllDigits(SubSeq(t, a + 2, b))
            /\ t[b + 1] = "."
            /\ AllWord(SubSeq(t, b + 2, Len(t)))

\* re.match(^{sku}-(\d+){suffix}-\d+\.\w+$): "$" also matches before one final newline
FullMatch(fname, sku) ==
    /\ StartsWith(fname, sku \o <<"-">>)
    /\ MatchesTail(SubSeq(fname, Len(sku) + 2, Len(fname)))

NoSkuCheck_validate_filename(fname, sku) ==
    \E p \in 0..Len(fname) :
        p + 1 <= Len(fname) /\ fname[p + 1] = "-" /\ MatchesTail(SubSeq(fname, p + 2, Len(fname)))

validate_filename(fname, sku) ==
    \/ FullMatch(fname, sku)
    \/ /\ fname # <<>>
       /\ fname[Len(fname)] = "\n"
       /\ FullMatch(SubSeq(fname, 1, Len(fname) - 1), sku)

\* re.search(-(\d+){suffix}-): the places p where "-", n digits, the suffix, "-" start
VariationMatches(fname) ==
    { pn \in (1..Len(fname)) \X (1..Len(fname)) :
        LET p == pn[1]
            n == pn[2]
            a == p + n + Len(variation_suffix)
        IN  /\ a + 1 <= Len(fname)
            /\ fname[p] = "-"
            /\ AllDigits(SubSeq(fname, p + 1, p + n))
            /\ SubSeq(fname, p + n + 1, a) = variation_suffix
            /\ fname[a + 1] = "-" }

\* leftmost match, longest run of digits; None when there is no match
extract_variation_number(fname) ==
    LET ms == VariationMatches(fname)
    IN  IF ms = {} THEN None
        ELSE LET m == CHOOSE x \in ms :
                        \A y \in ms : x[1] < y[1] \/ (x[1] = y[1] /\ x[2] >= y[2])
             IN  Some(DecimalValue(SubSeq(fname, m[1] + 1, m[1] + m[2])))

\* the checks of fetch_images_for_sku that read the name only
AcceptedByName(fname, sku) ==
    /\ is_valid_image_type(fname)
    /\ validate_image_sku_match(fname, sku)
    /\ validate_filename(fname, sku)
    /\ extract_variation_number(fname) # None

-----------------------------------------------------------------------------
(* Numbers read from and written to text                                    *)

\* code-point order of the characters that occur in display values
CodePoints == <<" ", "-", ".", "/">> \o Digits \o <<":">> \o UpperLetters \o <<"_">> \o LowerLetters
Ord(c) == IndexIn(c, CodePoints)

RECURSIVE TextLess(_, _)
\* s < t for Python strings
TextLess(s, t) ==
    IF t = <<>> THEN FALSE
    ELSE IF s = <<>> THEN TRUE
    ELSE IF s[1] = t[1] THEN TextLess(Tail(s), Tail(t))
    ELSE Ord(s[1]) < Ord(t[1])

RECURSIVE SortTexts(_)
\* sorted(S) for a set of strings
SortTexts(S) ==
    IF S = {} THEN <<>>
    ELSE LET m == CHOOSE x \in S : \A y \in S \ {x} : TextLess(x, y)
         IN  <<m>> \o SortTexts(S \ {m})

RECURSIVE SortNums(_)
\* sorted(S) for a set of numbers
SortNums(S) ==
    IF S = {} THEN <<>>
    ELSE LET m == CHOOSE x \in S : \A y \in S : x <= y
         IN  <<m>> \o SortNums(S \ {m})

RECURSIVE IntText(_)
\* str(n) for n >= 0
IntText(n) == IF n < 10 THEN <<Digits[n + 1]>> ELSE IntText(n \div 10) \o <<Digits[(n % 10) + 1]>>

\* float(text), as hundredths: digits with at most two fractional digits parse,
\* anything else raises ValueError (None here)
ParseFloat(t) ==
    LET dots == {i \in DOMAIN t : t[i] = "."}
    IN  IF dots = {} THEN (IF AllDigits(t) THEN Some(100 * DecimalValue(t)) ELSE None)
        ELSE LET d == CHOOSE i \in dots : TRUE
                 ip == SubSeq(t, 1, d - 1)
                 fp == SubSeq(t, d + 1, Len(t))
             IN  IF Cardinality(dots) = 1 /\ AllDigits(ip) /\ AllDigits(fp) /\ Len(fp) <= 2
                 THEN Some(100 * DecimalValue(ip)
                           + (IF Len(fp) = 1 THEN 10 ELSE 1) * DecimalValue(fp))
                 ELSE None

\* f"{x:.1f}" of x = h hundredths (h is never half way between two tenths here)
Fixed1(h) ==
    LET tenths == IF h % 10 > 5 THEN (h \div 10) + 1 ELSE h \div 10
    IN  IntText(tenths \div 10) \o <<".", Digits[(tenths % 10) + 1]>>

\* f"{x:.2f}" of x = h hundredths
Fixed2(h) == IntText(h \div 100) \o <<".", Digits[((h \div 10) % 10) + 1], Digits[(h % 10) + 1]>>

IsLetter(c) == IsLower(c) \/ IsUpper(c)
\* str.title(): a letter after a non-letter is upper-cased, any other lower-cased
Title(s) ==
    [i \in DOMAIN s |->
        IF i = 1 \/ ~IsLetter(s[i - 1]) THEN UpperChar(s[i]) ELSE LowerChar(s[i])]

-----------------------------------------------------------------------------
(* VariantMapper                                                            *)

T14K == <<"1", "4", "K">>
T18K == <<"1", "8", "K">>
T10K == <<"1", "0", "K">>
TSilver == <<"S", "I", "L", "V", "E", "R">>
TPlat == <<"P", "L", "A", "T">>
TTantalum == <<"T", "A", "N", "T", "A", "L", "U", "M">>
TTitanium == <<"T", "I", "T", "A", "N", "I", "U", "M">>

\* _format_metal_type
format_metal_type(metal_stamp, metal_color, metal_code) ==
    IF metal_code \in {T14K, T18K, T10K}
        THEN metal_stamp \o <<" ">> \o Title(metal_color) \o <<" ", "G", "o", "l", "d">>
    ELSE IF metal_code = TSilver THEN Title(metal_color) \o <<" ", "S", "i", "l", "v", "e", "r">>
    ELSE IF metal_code = TPlat THEN <<"P", "l", "a", "t", "i", "n", "u", "m">>
    ELSE IF metal_code = TTantalum
        THEN (IF metal_color # <<>> THEN <<"T", "a", "n", "t", "a", "l", "u", "m", " ">> \o Title(metal_color) ELSE <<"T", "a", "n", "t", "a", "l", "u", "m">>)
    ELSE IF metal_code = TTitanium
        THEN (IF metal_color # <<>> THEN <<"T", "i", "t", "a", "n", "i", "u", "m", " ">> \o Title(metal_color) ELSE <<"T", "i", "t", "a", "n", "i", "u", "m">>)
    ELSE metal_stamp \o <<" ">> \o Title(metal_color)

CTW == <<" ", "C", "T", "W">>

\* the three sets collected by the loop of get_dynamic_variant_attributes; a field
\* that is None or "" is skipped
metal_types(products) ==
    { format_metal_type(products[i].Metal_Stamp, products[i].Metal_Color, products[i].Metal_Code) :
        i \in {j \in DOMAIN products :
                 products[j].Metal_Stamp # <<>> /\ products[j].Metal_Color # <<>>} }

stone_weights(products) ==
    { Fixed2(ParseFloat(products[i].Stone_Weight__Carats_)[1]) \o CTW :
        i \in {j \in DOMAIN products :
                 /\ products[j].Stone_Weight__Carats_ # <<>>
                 /\ ParseFloat(products[j].Stone_Weight__Carats_) # None} }

\* the display value of one ring size: one decimal, or the raw text
RingSizeValue(raw) == IF ParseFloat(raw) # None THEN Fixed1(ParseFloat(raw)[1]) ELSE raw

ring_sizes(products) ==
    { RingSizeValue(products[i].Ring_Size) :
        i \in {j \in DOMAIN products : products[j].Ring_Size # <<>>} }

AttrCaratWeight == <<"C", "a", "r", "a", "t", " ", "W", "e", "i", "g", "h", "t">>
AttrMetalType == <<"M", "e", "t", "a", "l", " ", "T", "y", "p", "e">>
AttrSize == <<"S", "i", "z", "e">>

Option(name, values) == [name |-> name, values |-> values]

\* "if len(...) > 1" of get_dynamic_variant_attributes
Multiple(S) == Cardinality(S) > 1

\* get_dynamic_variant_attributes: the ordered map, as the sequence of its items in
\* insertion order; float(size) in the numeric sort of the ring sizes raises
\* ValueError when one of them is a raw text
get_dynamic_variant_attributes(products) ==
    LET sw == stone_weights(products)
        mt == metal_types(products)
        rs == ring_sizes(products)
        carat == IF Multiple(sw) THEN <<Option(AttrCaratWeight, SortTexts(sw))>> ELSE <<>>
        metal == IF Multiple(mt) THEN <<Option(AttrMetalType, SortTexts(mt))>> ELSE <<>>
    IN  IF Multiple(rs) /\ \E z \in rs : ParseFloat(z) = None
        THEN [raised |-> "ValueError", attrs |-> <<>>]
        ELSE LET nums == SortNums({ParseFloat(z)[1] : z \in rs})
                 size == IF Multiple(rs)
                         THEN <<Option(AttrSize, [i \in DOMAIN nums |-> Fixed1(nums[i])])>>
                         ELSE <<>>
             IN  [raised |-> NULL, attrs |-> carat \o metal \o size]

OptionValue(optionName, name) == [optionName |-> optionName, name |-> name]

\* _get_ring_options
get_ring_options(product) ==
    IF product.Ring_Size # <<>>
    THEN <<OptionValue(AttrSize, RingSizeValue(product.Ring_Size))>>
    ELSE <<OptionValue(AttrSize, <<"7", ".", "0">>)>>

\* _get_default_options, for the fields a row has here
get_default_options(product) ==
    (IF product.Metal_Stamp # <<>> /\ product.Metal_Color # <<>>
     THEN <<OptionValue(<<"M", "e", "t", "a", "l">>, format_metal_type(product.Metal_Stamp, product.Metal_Color,
                                                   product.Metal_Code))>>
     ELSE <<>>)
    \o (IF product.Stone_Weight__Carats_ # <<>> /\ ParseFloat(product.Stone_Weight__Carats_) # None
        THEN <<OptionValue(<<"S", "t", "o", "n", "e", " ", "W", "e", "i", "g", "h", "t">>,
                           Fixed2(ParseFloat(product.Stone_Weight__Carats_)[1]) \o CTW)>>
        ELSE <<>>)

CatRing == <<"R", "I", "N", "G">>
CatPendant == <<"P", "E", "N", "D", "A", "N", "T">>

\* map_variant: category-specific option values, and the row's own id as SKU
map_variant(product) ==
    [ optionValues |-> IF product.Item_Category_Code = CatRing
                       THEN get_ring_options(product)
                       ELSE get_default_options(product),
      sku |-> product.No_ ]

-----------------------------------------------------------------------------
(* DataTransformer                                                          *)

\* an assembler that shows the row's source fields as they are stored
Raw_DynamicValue(attr_name, product) ==
    IF attr_name = AttrSize /\ product.Ring_Size # <<>>
        THEN <<OptionValue(attr_name, product.Ring_Size)>>
    ELSE IF attr_name = AttrMetalType /\ product.Metal_Stamp # <<>> /\ product.Metal_Color # <<>>
        THEN <<OptionValue(attr_name, product.Metal_Stamp)>>
    ELSE IF attr_name = AttrCaratWeight /\ product.Stone_Weight__Carats_ # <<>>
        THEN <<OptionValue(attr_name, product.Stone_Weight__Carats_)>>
    ELSE <<>>

\* one pass of the loop of _apply_dynamic_attributes: the option value the row
\* gets for one dynamic attribute, if any
DynamicValue(attr_name, product) ==
    IF attr_name = AttrSize /\ product.Ring_Size # <<>>
        THEN <<OptionValue(attr_name, RingSizeValue(product.Ring_Size))>>
    ELSE IF attr_name = AttrMetalType /\ product.Metal_Stamp # <<>> /\ product.Metal_Color # <<>>
        THEN <<OptionValue(attr_name, format_metal_type(product.Metal_Stamp, product.Metal_Color,
                                                        product.Metal_Code))>>
    ELSE IF attr_name = AttrCaratWeight /\ product.Stone_Weight__Carats_ # <<>>
        THEN (IF ParseFloat(product.Stone_Weight__Carats_) # None
              THEN <<OptionValue(attr_name,
                                 Fixed2(ParseFloat(product.Stone_Weight__Carats_)[1]) \o CTW)>>
              ELSE <<>>)
    ELSE <<>>

RECURSIVE DynamicValues(_, _)
DynamicValues(attrs, product) ==
    IF attrs = <<>> THEN <<>>
    ELSE DynamicValue(attrs[1].name, product) \o DynamicValues(Tail(attrs), product)

\* an assembler that adds to the option values map_variant gave
Keeps_apply_dynamic_attributes(variant, product, dynamic_attributes) ==
    [variant EXCEPT !.optionValues = @ \o DynamicValues(dynamic_attributes, product)]

\* _apply_dynamic_attributes: the variant's option values are replaced
apply_dynamic_attributes(variant, product, dynamic_attributes) ==
    [variant EXCEPT !.optionValues = DynamicValues(dynamic_attributes, product)]

\* tuple(sorted(f"{optionName}:{name}" ...))
combination_key(variant) ==
    SortTexts({ variant.optionValues[i].optionName \o <<":">> \o variant.optionValues[i].name :
                    i \in DOMAIN variant.optionValues })

RECURSIVE AssembleVariants(_, _, _, _)
\* the loop over the rows: a variant is appended unless its key was seen
AssembleVariants(products, dynamic_attributes, variants, seen_combinations) ==
    IF products = <<>> THEN variants
    ELSE LET variant == apply_dynamic_attributes(map_variant(products[1]), products[1],
                                                 dynamic_attributes)
             key == combination_key(variant)
         IN  IF key \notin seen_combinations
             THEN AssembleVariants(Tail(products), dynamic_attributes,
                                   Append(variants, variant), seen_combinations \cup {key})
             ELSE AssembleVariants(Tail(products), dynamic_attributes, variants,
                                   seen_combinations)

\* _create_product_options: positions count from 1 in the order of the map
create_product_options(dynamic_attributes) ==
    [i \in DOMAIN dynamic_attributes |->
        [name |-> dynamic_attributes[i].name, position |-> i,
         values |-> dynamic_attributes[i].values]]

\* ProductMapper._generate_product_title, for the fields a row has here: the parts
\* that are present, joined by " "
generate_product_title(product) ==
    LET w == ParseFloat(product.Stone_Weight__Carats_)
        parts ==
            (IF product.Stone_Weight__Carats_ # <<>> /\ w # None /\ w # Some(0)
             THEN <<Fixed2(w[1]) \o CTW>> ELSE <<>>)
            \o (IF product.Item_Category_Code # <<>>
                THEN <<Title(product.Item_Category_Code)>> ELSE <<>>)
            \o (IF product.Metal_Stamp # <<>> /\ product.Metal_Color # <<>>
                THEN <<<<"i", "n", " ">> \o format_metal_type(product.Metal_Stamp, product.Metal_Color,
                                                 product.Metal_Code)>>
                ELSE <<>>)
    IN  IF parts = <<>> THEN <<>>
        ELSE IF Len(parts) = 1 THEN parts[1]
        ELSE IF Len(parts) = 2 THEN parts[1] \o <<" ">> \o parts[2]
        ELSE parts[1] \o <<" ">> \o parts[2] \o <<" ">> \o parts[3]

\* ProductMapper.map_product is declared with two parameters besides self;
\* transform_group_data calls it with three arguments
map_product_parameters == 2
map_product_arguments == 3

\* binding the arguments of a call: too many positional arguments raise TypeError
CallBinds(arguments, parameters) == arguments <= parameters

\* MetadataMapper.map_metafields, for the fields a row has here: a row carries none
\* of the fields a metafield is made from, and a group has no components
map_metafields(product) == <<>>

NoProduct == [title |-> <<>>, variants |-> <<>>, productOptions |-> <<>>, metafields |-> <<>>]

NotTransformed == [raised |-> NULL, dynamic |-> [raised |-> NULL, attrs |-> <<>>],
                   product |-> NoProduct]

\* transform_group_data: what it returns, or the exception it ends with, together
\* with the classifier's result it had computed by then
transform_group_data(products) ==
    LET dynamic == get_dynamic_variant_attributes(products)
    IN  IF dynamic.raised # NULL
        THEN [raised |-> dynamic.raised, dynamic |-> dynamic, product |-> NoProduct]
        ELSE IF ~CallBinds(map_product_arguments, map_product_parameters)
        THEN [raised |-> "TypeError", dynamic |-> dynamic, product |-> NoProduct]
        ELSE [raised |-> NULL, dynamic |-> dynamic,
              product |-> [title |-> generate_product_title(products[1]),
                           variants |-> AssembleVariants(products, dynamic.attrs, <<>>, {}),
                           productOptions |-> create_product_options(dynamic.attrs),
                           metafields |-> map_metafields(products[1])]]

RECURSIVE AllOptionValues(_)
\* the option values of the variants, in the order the two loops of
\* _prepare_product_set_mutation meet them
AllOptionValues(variants) ==
    IF variants = <<>> THEN <<>>
    ELSE variants[1].optionValues \o AllOptionValues(Tail(variants))

RECURSIVE FirstAppearances(_, _)
\* the keys of option_data in insertion order: an option name is inserted when it
\* is met for the first time
FirstAppearances(optionValues, names) ==
    IF optionValues = <<>> THEN names
    ELSE IF optionValues[1].optionName \in Range(names)
         THEN FirstAppearances(Tail(optionValues), names)
         ELSE FirstAppearances(Tail(optionValues), Append(names, optionValues[1].optionName))

\* ShopifyManager._prepare_product_set_mutation: the input of the productSet request.
\* The option list is built again from the variants and replaces the one of the
\* product data unless it is empty. The values of an option are collected in a set,
\* whose iteration order is not fixed: they are kept as a set here.
prepare_product_set_mutation(product_data) ==
    LET all == AllOptionValues(product_data.variants)
        names == FirstAppearances(all, <<>>)
        product_options ==
            [i \in DOMAIN names |->
                [name |-> names[i], position |-> i,
                 values |-> {all[k].name : k \in {j \in DOMAIN all :
                                                      all[j].optionName = names[i]}}]]
        given ==
            [i \in DOMAIN product_data.productOptions |->
                [name |-> product_data.productOptions[i].name,
                 position |-> product_data.productOptions[i].position,
                 values |-> Range(product_data.productOptions[i].values)]]
    IN  [product_data EXCEPT
            !.productOptions = IF product_options # <<>> THEN product_options ELSE given]

\* required_fields of validate_shopify_data; a metafield is the set of its keys
required_fields == {"namespace", "key", "type", "value"}

\* validate_shopify_data: the number of errors it reports
validation_errors(shopify_data) ==
    (IF shopify_data.title = <<>> THEN 1 ELSE 0)
    + (IF shopify_data.variants = <<>> THEN 1 ELSE 0)
    + Cardinality({i \in DOMAIN shopify_data.variants : shopify_data.variants[i].sku = <<>>})
    + Cardinality({i \in DOMAIN shopify_data.variants :
                        shopify_data.variants[i].optionValues = <<>>})
    + Cardinality({x \in (DOMAIN shopify_data.metafields) \X required_fields :
                        x[2] \notin shopify_data.metafields[x[1]]})

-----------------------------------------------------------------------------
(* ErrorHandler: errors, results and the delay                              *)

\* what one invocation of the wrapped operation does: it returns, or raises
\* RateLimitError(retry_after), TemporaryError, or any other Exception
NoError == [kind |-> "none", hint |-> None, id |-> 0]
RateLimitError(retry_after, id) == [kind |-> "RateLimitError", hint |-> retry_after, id |-> id]
TemporaryError(id) == [kind |-> "TemporaryError", hint |-> None, id |-> id]
OtherError(id) == [kind |-> "Exception", hint |-> None, id |-> id]
Returned(id) == [kind |-> "return", hint |-> None, id |-> id]

Pending == [how |-> "pending", what |-> NoError]
ReturnedValue(v) == [how |-> "returned", what |-> v]
ReturnedNone == [how |-> "returned", what |-> NoError]
Raised(e) == [how |-> "raised", what |-> e]

base_delay == 1000      \* RetryConfig.base_delay = 1.0 s, in milliseconds
MaxRetriesCfg == 3      \* the largest max_retries a run is configured with
MaxJitter == 100        \* random.uniform(0, 0.1), in thousandths

\* "if retry_after:" -- None and 0 are both false
Truthy(retry_after) == retry_after # None /\ retry_after[1] # 0

RECURSIVE Pow2(_)
Pow2(n) == IF n = 0 THEN 1 ELSE 2 * Pow2(n - 1)

\* a backoff that grows by base_delay per attempt
Linear_calculate_delay(a, retry_after, r) ==
    IF Truthy(retry_after) THEN 1000 * retry_after[1]
    ELSE LET delay == base_delay * (a + 1)
             jitter == (r * delay) \div 1000
         IN  delay + jitter

\* _calculate_delay, with the random factor r (thousandths) passed in
calculate_delay(a, retry_after, r) ==
    IF Truthy(retry_after) THEN 1000 * retry_after[1]
    ELSE LET delay == base_delay * Pow2(a)
             jitter == (r * delay) \div 1000
         IN  delay + jitter

Never_LastAttempt(a) == FALSE

\* an engine whose last attempt is one past the end of the loop
OnePast_LastAttempt(a) == a = r_max + 1

\* "if attempt == self.retry_config.max_retries"
LastAttempt(a) == a = r_max

\* execute_with_retry over the outcomes of the successive invocations of the
\* wrapped operation, from attempt a on (the sleeps between them left out)
RECURSIVE execute_with_retry(_, _)
execute_with_retry(outcomes, a) ==
    IF a > r_max THEN ReturnedNone
    ELSE LET e == outcomes[a + 1]
         IN  IF e.kind = "return" THEN ReturnedValue(e)
             ELSE IF e.kind \in {"RateLimitError", "TemporaryError"}
                  THEN (IF LastAttempt(a) THEN Raised(e) ELSE execute_with_retry(outcomes, a + 1))
             ELSE Raised(e)

-----------------------------------------------------------------------------
(* ShopifyManager and ImageUploader                                         *)

\* what the remote does with one request: it answers 200 with the payload, 200 with
\* userErrors in the payload, 200 with top-level GraphQL errors, 429, another
\* error status, or the request itself raises (connection error, timeout)
Resp == {"ok", "user_errors", "errors", "rate_limited", "http_error", "network"}

\* the answers to the productSet request: those of any request, and two more shapes
\* of a 200 payload: a product together with userErrors, and neither of them
CreateResp == Resp \cup {"product_and_user_errors", "nothing"}

\* response.headers.get('Retry-After', 2)
default_retry_after == 2

\* a value computed inside try, or the exception raised there
Value(v) == [raised |-> FALSE, value |-> v]
Raise == [raised |-> TRUE, value |-> FALSE]

\* a function body without its "except Exception: ... return fallback"
Uncaught(r, fallback) == r

\* try: ... except Exception: log, return fallback
Caught(r, fallback) == IF r.raised THEN Value(fallback) ELSE r

\* _execute_graphql_mutation as the n-th invocation by the retry engine
execute_graphql_mutation(resp, n) ==
    IF resp = "rate_limited" THEN RateLimitError(Some(default_retry_after), n)
    ELSE IF resp \in {"network", "http_error", "errors"} THEN OtherError(n)
    ELSE Returned(n)

\* _upload_product_images: True only when the media were created
upload_product_images(resp) ==
    Caught(IF resp \in {"network", "rate_limited", "http_error"} THEN Raise
           ELSE Value(resp = "ok"),
           FALSE)

\* _publish_to_online_store: the payload, as whether it carries userErrors
publish_to_online_store(resp) ==
    Caught(IF resp \in {"network", "rate_limited", "http_error", "errors"} THEN Raise
           ELSE Value(resp = "user_errors"),
           TRUE)

SepImage == <<" ", "-", " ", "I", "m", "a", "g", "e", " ">>

\* process_product_images: the alt text of the media item of one image
MediaAlt(image) == image.image_sku \o SepImage \o IntText(image.variation_number)

\* the least position where p occurs in s from position i on, or 0
RECURSIVE Find(_, _, _)
Find(s, p, i) ==
    IF i + Len(p) - 1 > Len(s) THEN 0
    ELSE IF SubSeq(s, i, i + Len(p) - 1) = p THEN i
    ELSE Find(s, p, i + 1)

\* int(alt.split(' - Image ')[1]) under "if ' - Image ' in alt": None when int()
\* raises ValueError
AltVariation(alt) ==
    LET first == Find(alt, SepImage, 1)
    IN  IF first = 0 THEN None
        ELSE LET from == first + Len(SepImage)
                 next == Find(alt, SepImage, from)
                 piece == IF next = 0 THEN SubSeq(alt, from, Len(alt))
                          ELSE SubSeq(alt, from, next - 1)
             IN  IF piece # <<>> /\ AllDigits(piece) THEN Some(DecimalValue(piece)) ELSE None

\* the loop of _get_product_media_map over the media nodes: node i has id i, and a
\* later node with the same variation number replaces an earlier one
RECURSIVE MediaMapOf(_, _, _)
MediaMapOf(nodes, i, media_map) ==
    IF i > Len(nodes) THEN media_map
    ELSE LET v == AltVariation(nodes[i].alt)
         IN  MediaMapOf(nodes, i + 1,
                        IF v = None THEN media_map
                        ELSE [n \in DOMAIN media_map \cup {v[1]} |->
                                 IF n = v[1] THEN i ELSE media_map[n]])

EmptyMap == [n \in {} |-> 0]

\* _get_product_media_map: the media the product has at the remote, by variation
get_product_media_map(resp, nodes) ==
    Caught(IF resp = "network" THEN Raise
           ELSE IF resp \in {"rate_limited", "http_error"} THEN Value(EmptyMap)
           ELSE IF resp = "errors" THEN Value(EmptyMap)
           ELSE Value(MediaMapOf(nodes, 1, EmptyMap)),
           EmptyMap)

\* _associate_image_to_variant: whether the remote bound the image
associate_image_to_variant(resp) ==
    Caught(IF resp = "network" THEN Raise ELSE Value(resp = "ok"), FALSE)

\* the primary image of a list: the first with variation 1, else the first
PrimaryImage(images) ==
    LET ones == {i \in DOMAIN images : images[i].variation_number = 1}
    IN  IF ones # {} THEN images[CHOOSE i \in ones : \A j \in ones : i <= j] ELSE images[1]

\* a loop that ends at the first variant it cannot bind
Return_Skip(rest) == Value(<<>>)

\* "continue": the variant is left alone, and the loop goes on with the others
Skip(rest) == rest

RECURSIVE AssociateFrom(_, _, _, _, _, _)
\* the loop of associate_images_to_variants from variant i on: the binding requests
\* it makes, or the exception that ends it
AssociateFrom(variants, i, image_sku_mapping, image_data_map, media_map, bind) ==
    IF i > Len(variants) THEN Value(<<>>)
    ELSE LET sku == variants[i].sku
             rest == AssociateFrom(variants, i + 1, image_sku_mapping, image_data_map,
                                   media_map, bind)
         IN  IF sku \notin DOMAIN image_sku_mapping THEN Skip(rest)
             ELSE IF image_sku_mapping[sku] \notin DOMAIN image_data_map THEN Skip(rest)
             ELSE IF image_data_map[image_sku_mapping[sku]] = <<>> THEN Skip(rest)
             ELSE LET primary_image == PrimaryImage(image_data_map[image_sku_mapping[sku]])
                  IN  IF primary_image.variation_number \notin DOMAIN media_map
                      THEN Skip(rest)
                      ELSE LET r == associate_image_to_variant(bind[i])
                           IN  IF r.raised \/ rest.raised THEN Raise
                               ELSE Value(<<[variant |-> sku,
                                             media |-> media_map[primary_image.variation_number],
                                             resp |-> bind[i], bound |-> r.value]>>
                                          \o rest.value)

\* associate_images_to_variants
associate_images_to_variants(variants, image_sku_mapping, image_data_map, lookup, nodes, bind) ==
    LET media_map == get_product_media_map(lookup, nodes)
    IN  IF media_map.raised THEN Raise
        ELSE IF media_map.value = EmptyMap THEN Value(<<>>)
        ELSE AssociateFrom(variants, 1, image_sku_mapping, image_data_map, media_map.value, bind)

\* the mapping built at the head of the association branch: product SKU -> image key
\* (a later key of the same product SKU replaces an earlier one)
VariantToImageSku(mapping) ==
    LET skus == UNION {Range(mapping[i].product_skus) : i \in DOMAIN mapping}
    IN  [sku \in skus |->
            mapping[CHOOSE i \in DOMAIN mapping :
                        /\ sku \in Range(mapping[i].product_skus)
                        /\ \A j \in DOMAIN mapping :
                              sku \in Range(mapping[j].product_skus) => j <= i].image_sku]

EmptyImageMap == [k \in {} |-> <<>>]

\* one requests.post: the remote call it makes, for which variant (binding calls),
\* and the remote's answer
Post(call, target, resp) == [call |-> call, target |-> target, resp |-> resp]

NoProductData ==
    [ variants |-> <<>>, has_media |-> FALSE, media |-> <<>>, has_mapping |-> FALSE,
      image_sku_mapping |-> <<>>, image_data_map |-> EmptyImageMap ]

NotSubmitted ==
    [ raised |-> FALSE, error |-> NoError, product |-> FALSE, userErrors |-> FALSE,
      upload |-> "none", publish |-> "none", lookup |-> "none", bindings |-> <<>>,
      creates |-> 0, posted |-> <<>> ]

\* create_or_update_product: what it returns or raises, with the requests it made
\* after the create call; remote is the remote's answer to each request
create_or_update_product(product_data, remote) ==
    LET run == execute_with_retry(
                   [n \in DOMAIN remote.create |-> execute_graphql_mutation(remote.create[n], n)], 0)
        \* the create requests made: one per invocation of _execute_graphql_mutation
        creates == IF run.what = NoError THEN r_max + 1 ELSE run.what.id
        called == [NotSubmitted EXCEPT
                      !.creates = creates,
                      !.posted = [n \in 1..creates |-> Post("create", <<>>, remote.create[n])]]
    IN  IF run.how = "raised"
            THEN [called EXCEPT !.raised = TRUE, !.error = run.what]
        ELSE IF run.what = NoError
            \* result is None: result.get raises AttributeError
            THEN [called EXCEPT !.raised = TRUE, !.error = OtherError(0)]
        \* "if result.get('product') and not result.get('userErrors')" is false
        ELSE IF remote.create[run.what.id] # "ok"
            THEN [called EXCEPT
                     !.userErrors = remote.create[run.what.id]
                                        \in {"user_errors", "product_and_user_errors"},
                     !.product = remote.create[run.what.id] = "product_and_user_errors"]
        ELSE LET uploads == product_data.has_media /\ product_data.media # <<>>
                 upload_result == IF uploads THEN upload_product_images(remote.upload)
                                  ELSE Value(FALSE)
                 nodes == IF uploads /\ remote.upload = "ok" THEN product_data.media ELSE <<>>
                 publish_result == publish_to_online_store(remote.publish)
                 associated ==
                     IF product_data.has_mapping
                     THEN associate_images_to_variants(
                              product_data.variants,
                              VariantToImageSku(product_data.image_sku_mapping),
                              product_data.image_data_map, remote.lookup, nodes, remote.bind)
                     ELSE Value(<<>>)
             IN  IF upload_result.raised \/ publish_result.raised \/ associated.raised
                 THEN [called EXCEPT !.raised = TRUE, !.error = OtherError(0),
                                     !.product = TRUE]
                 ELSE [called EXCEPT
                          !.product = TRUE,
                          !.upload = IF uploads THEN remote.upload ELSE "none",
                          !.publish = remote.publish,
                          !.lookup = IF product_data.has_mapping THEN remote.lookup ELSE "none",
                          !.bindings = associated.value,
                          !.posted =
                              @ \o (IF uploads THEN <<Post("upload", <<>>, remote.upload)>> ELSE <<>>)
                                \o <<Post("publish", <<>>, remote.publish)>>
                                \o (IF product_data.has_mapping
                                    THEN <<Post("lookup", <<>>, remote.lookup)>> ELSE <<>>)
                                \o [b \in DOMAIN associated.value |->
                                       Post("bind", associated.value[b].variant,
                                            associated.value[b].resp)]]

-----------------------------------------------------------------------------
(* S3Client.fetch_images_for_sku                                            *)

\* s3_key.split('/')[-1]
LastSegment(s3_key) ==
    LET slashes == {i \in DOMAIN s3_key : s3_key[i] = "/"}
    IN  IF slashes = {} THEN s3_key
        ELSE SubSeq(s3_key, (CHOOSE i \in slashes : \A j \in slashes : j <= i) + 1, Len(s3_key))

\* validate_dimensions
validate_dimensions(width, height) ==
    IF width = None \/ height = None THEN FALSE
    ELSE width[1] >= min_width /\ height[1] >= min_height

\* what listing the bucket does: it answers, it fails with a ClientError, or it
\* fails with another exception (no connection, timeout)
S3Outcomes == {"ok", "client_error", "raises"}

\* list_images_in_directory: the keys under the prefix, in the bucket's (sorted)
\* order; a ClientError gives the empty list, another exception passes through
list_images_in_directory(prefix, objects, outcome) ==
    IF outcome = "raises" THEN Raise
    ELSE IF outcome = "client_error" THEN Value(<<>>)
    ELSE Value(SortTexts({o.s3_key : o \in {x \in objects : StartsWith(x.s3_key, prefix)}}))

\* list.sort() of the records: stable, by variation_number
RECURSIVE SortImages(_)
SortImages(images) ==
    IF images = <<>> THEN <<>>
    ELSE LET least == CHOOSE i \in DOMAIN images :
                         /\ \A j \in DOMAIN images :
                               images[i].variation_number <= images[j].variation_number
                         /\ \A j \in 1..(i - 1) :
                               images[j].variation_number # images[i].variation_number
         IN  <<images[least]>>
             \o SortImages([k \in 1..(Len(images) - 1) |->
                               IF k < least THEN images[k] ELSE images[k + 1]])

\* get_presigned_url: signing is computed locally from the object's key
get_presigned_url(s3_key) == Some(<<"h", "t", "t", "p", "s", ":", "/", "/">> \o s3_key)

RECURSIVE ValidImages(_, _, _)
\* the loop of fetch_images_for_sku over the listed keys
ValidImages(sku, s3_keys, objects) ==
    IF s3_keys = <<>> THEN <<>>
    ELSE LET s3_key == s3_keys[1]
             fname == LastSegment(s3_key)
             metadata == CHOOSE o \in objects : o.s3_key = s3_key
             rest == ValidImages(sku, Tail(s3_keys), objects)
         IN  IF ~is_valid_image_type(fname) THEN rest
             ELSE IF ~validate_image_sku_match(fname, sku) THEN rest
             ELSE IF ~validate_filename(fname, sku) THEN rest
             ELSE IF extract_variation_number(fname) = None THEN rest
             ELSE IF ~validate_dimensions(metadata.width, metadata.height) THEN rest
             ELSE IF get_presigned_url(s3_key) = None THEN rest
             ELSE <<[ image_sku |-> sku,
                      variation_number |-> extract_variation_number(fname)[1],
                      s3_key |-> s3_key, filename |-> fname,
                      url |-> get_presigned_url(s3_key)[1],
                      width |-> metadata.width[1], height |-> metadata.height[1] ]>> \o rest

\* fetch_images_for_sku: the sorted valid records, or the exception of the listing
fetch_images_for_sku(sku, objects, outcome) ==
    LET s3_keys == list_images_in_directory(construct_s3_path(sku), objects, outcome)
    IN  IF s3_keys.raised THEN Raise
        ELSE IF s3_keys.value = <<>> THEN Value(<<>>)
        ELSE Value(SortImages(ValidImages(sku, s3_keys.value, objects)))

\* m with m[key] = images
Put(m, key, images) == [k \in DOMAIN m \cup {key} |-> IF k = key THEN images ELSE m[k]]

\* a collecting loop in which the failure of one task empties the whole map
EmptiesAll_CollectResult(image_data_map, key, images) ==
    IF images.raised THEN [k \in DOMAIN image_data_map \cup {key} |-> <<>>]
    ELSE Put(image_data_map, key, images.value)

\* one pass of the collecting loop of fetch_images_for_group: the records of the
\* completed task are stored under its key, or [] when future.result() raises
CollectResult(image_data_map, key, images) ==
    Put(image_data_map, key, IF images.raised THEN <<>> ELSE images.value)

\* a call of fetch_images_for_group: the tasks not yet collected, what each collected
\* task's worker did ("cache", or the outcome of its listing), and the map so far
NoBatch == [group_id |-> 0, image_sku_mapping |-> <<>>, pending |-> {},
            did |-> EmptyImageMap, image_data_map |-> EmptyImageMap]

-----------------------------------------------------------------------------
(* Location of an image key: the inputs, and the step                       *)

MaxKeyLen == 7
KeyAlphabet == {"1", "8", "x"}

RECURSIVE TextsUpTo(_, _)
\* every text over the alphabet of length at most n
TextsUpTo(alphabet, n) ==
    IF n = 0 THEN {<<>>}
    ELSE LET shorter == TextsUpTo(alphabet, n - 1)
         IN  shorter \cup {Append(t, c) : t \in {u \in shorter : Len(u) = n - 1}, c \in alphabet}

Key827749 == <<"8", "2", "7", "7", "4", "9">>
Key11 == <<"1", "1">>
Key1102192 == <<"1", "1", "0", "2", "1", "9", "2">>
Key1102193 == <<"1", "1", "0", "2", "1", "9", "3">>
Key110219 == <<"1", "1", "0", "2", "1", "9">>
File1102192 == Key1102192 \o <<"-", "1", "a", "-", "1", "2", "3", "4", "5", ".", "j", "p", "g">>
File1102193 == Key1102193 \o <<"-", "1", "a", "-", "1", "2", "3", "4", "5", ".", "j", "p", "g">>

LocateKeys == TextsUpTo(KeyAlphabet, MaxKeyLen) \cup {Key827749, Key11, Key1102192, Key1102193}

dIdle == dpc = "idle" /\ image_sku = <<>> /\ filename = <<>> /\ s3_path = <<>> /\ name_ok = FALSE
\* the retry engine at rest, whatever its budget
rRest ==
    /\ rpc = "idle" /\ attempt = 0 /\ calls = <<>> /\ sleeps = <<>>
    /\ caught = NoError /\ r_out = Pending
rIdle == rRest /\ r_max = 0
tIdle == tpc = "idle" /\ group_data = <<>> /\ transformed = NotTransformed
sIdle == spc = "idle" /\ s_product = NoProductData /\ submitted = NotSubmitted
bIdle == bpc = "idle" /\ group_ids = <<>> /\ dry_run = FALSE /\ db = <<>> /\ results = <<>>
iIdle ==
    /\ ipc = "idle" /\ bucket = {} /\ image_cache = EmptyImageMap /\ fetch_calls = <<>>
    /\ cache_writes = <<>> /\ missing_log = <<>> /\ batch = NoBatch /\ history = <<>>
gIdle ==
    /\ gpc = "idle" /\ shopify_datas = <<>> /\ g_dry_run = FALSE /\ g_results = <<>>
    /\ g_submitted = <<>>
pIdle ==
    /\ ppc = "idle" /\ now = 0 /\ last_request_time = 0 /\ requests_per_second = 1
    /\ requests = <<>> /\ p_attempt = 0 /\ p_count = 0
aIdle ==
    /\ apc = "idle" /\ a_products = <<>> /\ a_attrs = <<>> /\ a_index = 0
    /\ a_variants = <<>> /\ a_seen = {} /\ a_skipped = <<>> /\ a_options = <<>>
wIdle ==
    /\ wpc = "idle" /\ w_products = <<>> /\ w_mapping = <<>> /\ w_tasks = <<>>
    /\ w_cache = {} /\ w_max = 1
fIdle ==
    /\ fpc = "idle" /\ f_objects = {} /\ f_sku = <<>> /\ f_result = Value(<<>>)
\* every component but one at rest
IdleButD == rIdle /\ tIdle /\ sIdle /\ bIdle /\ iIdle /\ gIdle /\ pIdle /\ aIdle /\ wIdle /\ fIdle
IdleButR == dIdle /\ tIdle /\ sIdle /\ bIdle /\ iIdle /\ gIdle /\ pIdle /\ aIdle /\ wIdle /\ fIdle
IdleButT == dIdle /\ rIdle /\ sIdle /\ bIdle /\ iIdle /\ gIdle /\ pIdle /\ aIdle /\ wIdle /\ fIdle
IdleButS == dIdle /\ rRest /\ tIdle /\ bIdle /\ iIdle /\ gIdle /\ pIdle /\ aIdle /\ wIdle /\ fIdle
IdleButB == dIdle /\ rRest /\ tIdle /\ sIdle /\ iIdle /\ gIdle /\ pIdle /\ aIdle /\ wIdle /\ fIdle
IdleButI == dIdle /\ rIdle /\ tIdle /\ sIdle /\ bIdle /\ gIdle /\ pIdle /\ aIdle /\ wIdle /\ fIdle
IdleButG == dIdle /\ rRest /\ tIdle /\ sIdle /\ bIdle /\ iIdle /\ pIdle /\ aIdle /\ wIdle /\ fIdle
IdleButP == dIdle /\ rRest /\ tIdle /\ sIdle /\ bIdle /\ iIdle /\ gIdle /\ aIdle /\ wIdle /\ fIdle
IdleButA == dIdle /\ rIdle /\ tIdle /\ sIdle /\ bIdle /\ iIdle /\ gIdle /\ pIdle /\ wIdle /\ fIdle
IdleButW == dIdle /\ rIdle /\ tIdle /\ sIdle /\ bIdle /\ iIdle /\ gIdle /\ pIdle /\ aIdle /\ fIdle
IdleButF == dIdle /\ rIdle /\ tIdle /\ sIdle /\ bIdle /\ iIdle /\ gIdle /\ pIdle /\ aIdle /\ wIdle

InitLocate ==
    /\ dpc = "start"
    /\ image_sku \in LocateKeys
    /\ filename = <<>>
    /\ s3_path = <<>>
    /\ name_ok = FALSE
    /\ IdleButD

\* a call of construct_s3_path
Locate ==
    /\ dpc = "start"
    /\ s3_path' = construct_s3_path(image_sku)
    /\ dpc' = "located"
    /\ UNCHANGED <<image_sku, filename, name_ok, notD>>

NextLocate == Locate
SpecLocate == InitLocate /\ [][NextLocate]_vars

-----------------------------------------------------------------------------
(* Discovery by name: the inputs, and the step                              *)

NameKeys == {Key1102192, Key1102193, Key110219, Key1102192 \o <<"-", "1", "a">>}

\* candidate names: a key, then pieces that do or do not fit the pattern
NameSeps == {<<"-">>, <<"_">>, <<>>}
NameNumbers == {<<"1">>, <<"1", "0">>, <<"x">>, <<>>}
NameSuffixes == {<<"a">>, <<"A">>, <<"b">>}
NameRandoms == {<<"1", "2", "3", "4", "5">>, <<"7", "-", "1">>, <<>>}
NameExts == {<<".", "j", "p", "g">>, <<".", "J", "P", "G">>, <<".", "w", "e", "b", "p">>,
             <<".", "t", "x", "t">>, <<".", "j", "p", "g", "\n">>, <<>>}

CandidateNames ==
    { k \o s1 \o n \o sf \o <<"-">> \o r \o e :
        k \in NameKeys, s1 \in NameSeps, n \in NameNumbers, sf \in NameSuffixes,
        r \in NameRandoms, e \in NameExts }

InitNames ==
    /\ dpc = "listed"
    /\ image_sku \in NameKeys
    /\ filename \in CandidateNames
    /\ s3_path = <<>>
    /\ name_ok = FALSE
    /\ IdleButD

\* the by-name checks of one candidate in the loop of fetch_images_for_sku
CheckName ==
    /\ dpc = "listed"
    /\ name_ok' = AcceptedByName(filename, image_sku)
    /\ dpc' = "named"
    /\ UNCHANGED <<image_sku, filename, s3_path, notD>>

NextNames == CheckName
SpecNames == InitNames /\ [][NextNames]_vars

-----------------------------------------------------------------------------
(* ErrorHandler.execute_with_retry                                          *)

Hints == {None, Some(0), Some(2), Some(5)}
Jitters == {0, 50, MaxJitter}

InitRetry ==
    /\ IdleButR
    /\ rpc = "call"
    /\ attempt = 0
    /\ calls = <<>>
    /\ sleeps = <<>>
    /\ caught = NoError
    /\ r_out = Pending
    /\ r_max \in 0..MaxRetriesCfg

\* the except clauses for RateLimitError and TemporaryError: re-raise on the last
\* attempt, otherwise compute the delay and sleep
HandleRetryable(e, retry_after, r) ==
    /\ calls' = Append(calls, e)
    /\ caught' = e
    /\ IF LastAttempt(attempt)
       THEN rpc' = "raised" /\ r_out' = Raised(e) /\ sleeps' = sleeps
       ELSE /\ rpc' = "sleep"
            /\ sleeps' = Append(sleeps, calculate_delay(attempt, retry_after, r))
            /\ r_out' = r_out
    /\ UNCHANGED <<attempt, r_max, notR>>

\* operation(*args) returns: execute_with_retry returns its value
OpReturns ==
    /\ rpc = "call"
    /\ calls' = Append(calls, Returned(Len(calls) + 1))
    /\ rpc' = "returned"
    /\ r_out' = ReturnedValue(Returned(Len(calls) + 1))
    /\ UNCHANGED <<attempt, sleeps, caught, r_max, notR>>

OpRateLimited ==
    /\ rpc = "call"
    /\ \E h \in Hints : \E r \in Jitters :
          HandleRetryable(RateLimitError(h, Len(calls) + 1), h, r)

OpTemporary ==
    /\ rpc = "call"
    /\ \E r \in Jitters : HandleRetryable(TemporaryError(Len(calls) + 1), None, r)

\* an engine that treats every exception as a transient error
Retried_OpFails ==
    /\ rpc = "call"
    /\ \E r \in Jitters : HandleRetryable(OtherError(Len(calls) + 1), None, r)

\* except Exception: log and re-raise
OpFails ==
    /\ rpc = "call"
    /\ calls' = Append(calls, OtherError(Len(calls) + 1))
    /\ caught' = OtherError(Len(calls) + 1)
    /\ rpc' = "raised"
    /\ r_out' = Raised(OtherError(Len(calls) + 1))
    /\ UNCHANGED <<attempt, sleeps, r_max, notR>>

\* time.sleep(delay) returns; the for loop takes its next value, or is exhausted
\* and the function falls off its end
SleepDone ==
    /\ rpc = "sleep"
    /\ IF attempt + 1 <= r_max
       THEN rpc' = "call" /\ attempt' = attempt + 1 /\ r_out' = r_out
       ELSE rpc' = "returned" /\ attempt' = attempt /\ r_out' = ReturnedNone
    /\ UNCHANGED <<calls, sleeps, caught, r_max, notR>>

NextRetry == OpReturns \/ OpRateLimited \/ OpTemporary \/ OpFails \/ SleepDone
SpecRetry == InitRetry /\ [][NextRetry]_vars

-----------------------------------------------------------------------------
(* Transformation of one group                                              *)

MaxRows == 3

WeightPool == {<<>>, <<"0", ".", "5">>, <<"1">>}
MetalPool == { [stamp |-> <<>>, color |-> <<>>, code |-> <<>>],
               [stamp |-> T14K, color |-> <<"Y", "E", "L", "L", "O", "W">>, code |-> T14K],
               [stamp |-> T18K, color |-> <<"W", "H", "I", "T", "E">>, code |-> T18K] }
SizePool == {<<>>, <<"7">>, <<"7", ".", "0">>, <<"7", ".", "5">>, <<"a", "d", "j">>}
CategoryPool == {CatRing, CatPendant}

\* the row at position i of a group: No_ is its position
Row(i, category, metal, weight, size) ==
    [ No_ |-> IntText(i), Item_Category_Code |-> category,
      Metal_Stamp |-> metal.stamp, Metal_Color |-> metal.color, Metal_Code |-> metal.code,
      Stone_Weight__Carats_ |-> weight, Ring_Size |-> size ]

RECURSIVE GroupsOf(_, _)
\* the groups of n rows of one category
GroupsOf(n, category) ==
    IF n = 0 THEN {<<>>}
    ELSE { Append(g, Row(n, category, metal, weight, size)) :
             g \in GroupsOf(n - 1, category),
             metal \in MetalPool, weight \in WeightPool, size \in SizePool }

InitTransform ==
    /\ tpc = "start"
    /\ \E n \in 1..MaxRows, category \in CategoryPool : group_data \in GroupsOf(n, category)
    /\ transformed = NotTransformed
    /\ IdleButT

\* a call of transform_group_data on the rows of the group
TransformGroupData ==
    /\ tpc = "start"
    /\ transformed' = transform_group_data(group_data)
    /\ tpc' = "done"
    /\ UNCHANGED <<group_data, notT>>

NextTransform == TransformGroupData
SpecTransform == InitTransform /\ [][NextTransform]_vars

-----------------------------------------------------------------------------
(* The variant loop of transform_group_data, from the classifier on          *)

MaxAssembled == 2

InitAssemble ==
    /\ apc = "start"
    /\ \E n \in 1..MaxAssembled, category \in CategoryPool : a_products \in GroupsOf(n, category)
    /\ a_attrs = <<>> /\ a_index = 0 /\ a_variants = <<>> /\ a_seen = {}
    /\ a_skipped = <<>> /\ a_options = <<>>
    /\ IdleButA

\* dynamic_attributes = self.variant_mapper.get_dynamic_variant_attributes(products)
Classify ==
    /\ apc = "start"
    /\ LET dynamic == get_dynamic_variant_attributes(a_products)
       IN  IF dynamic.raised # NULL
           THEN apc' = "raised" /\ UNCHANGED a_attrs
           ELSE apc' = "loop" /\ a_attrs' = dynamic.attrs
    /\ UNCHANGED <<a_products, a_index, a_variants, a_seen, a_skipped, a_options, notA>>

\* one pass of "for product in products": the row's variant is appended unless its
\* combination key was seen, in which case the row is logged and left out
AssembleRow ==
    /\ apc = "loop" /\ a_index < Len(a_products)
    /\ LET product == a_products[a_index + 1]
           variant == apply_dynamic_attributes(map_variant(product), product, a_attrs)
           key == combination_key(variant)
       IN  IF key \notin a_seen
           THEN /\ a_variants' = Append(a_variants, variant)
                /\ a_seen' = a_seen \cup {key}
                /\ UNCHANGED a_skipped
           ELSE /\ a_skipped' = Append(a_skipped, product.No_)
                /\ UNCHANGED <<a_variants, a_seen>>
    /\ a_index' = a_index + 1
    /\ UNCHANGED <<apc, a_products, a_attrs, a_options, notA>>

\* shopify_product['productOptions'] = self._create_product_options(dynamic_attributes)
CreateProductOptions ==
    /\ apc = "loop" /\ a_index = Len(a_products)
    /\ a_options' = create_product_options(a_attrs)
    /\ apc' = "done"
    /\ UNCHANGED <<a_products, a_attrs, a_index, a_variants, a_seen, a_skipped, notA>>

NextAssemble == Classify \/ AssembleRow \/ CreateProductOptions
SpecAssemble == InitAssemble /\ [][NextAssemble]_vars

-----------------------------------------------------------------------------
(* Submission of one product                                                *)

ImageData(key, n) == [image_sku |-> key, variation_number |-> n]

\* the variation numbers of the images found under the one image key
VariationPool == {<<>>, <<1>>, <<1, 2>>, <<2, 3>>}

\* the product: two variants, the first using the image key, the second using it
\* or none; with or without the image fields
ProductDataOf(variations, both, with_images) ==
    LET images == [i \in DOMAIN variations |-> ImageData(Key827749, variations[i])]
    IN  [ variants |-> <<[sku |-> <<"1">>], [sku |-> <<"2">>]>>,
          has_media |-> with_images,
          media |-> IF with_images THEN [i \in DOMAIN images |-> [alt |-> MediaAlt(images[i])]]
                    ELSE <<>>,
          has_mapping |-> with_images,
          image_sku_mapping |->
              IF with_images
              THEN <<[image_sku |-> Key827749,
                      product_skus |-> IF both THEN <<<<"1">>, <<"2">>>> ELSE <<<<"1">>>>]>>
              ELSE <<>>,
          image_data_map |-> IF with_images THEN (Key827749 :> images) ELSE EmptyImageMap ]

\* a product whose two variants use two image keys, the first with image 1, the
\* second with one image of the given number; process_product_images sorts the
\* media by variation number only, so images of equal number come in either order
TwoKeyProductData(second_number, second_first) ==
    LET image1 == ImageData(Key827749, 1)
        image2 == ImageData(<<"1", "1", "0", "2", "1", "9", "2">>, second_number)
    IN  [ variants |-> <<[sku |-> <<"1">>], [sku |-> <<"2">>]>>,
          has_media |-> TRUE,
          media |-> IF second_first
                    THEN <<[alt |-> MediaAlt(image2)], [alt |-> MediaAlt(image1)]>>
                    ELSE <<[alt |-> MediaAlt(image1)], [alt |-> MediaAlt(image2)]>>,
          has_mapping |-> TRUE,
          image_sku_mapping |->
              <<[image_sku |-> image1.image_sku, product_skus |-> <<<<"1">>>>],
                [image_sku |-> image2.image_sku, product_skus |-> <<<<"2">>>>]>>,
          image_data_map |-> (image1.image_sku :> <<image1>>) @@ (image2.image_sku :> <<image2>>) ]

ProductDatas ==
    { ProductDataOf(variations, both, with_images) :
        variations \in VariationPool, both \in BOOLEAN, with_images \in BOOLEAN }
    \cup { TwoKeyProductData(2, FALSE), TwoKeyProductData(1, FALSE), TwoKeyProductData(1, TRUE),
           \* the product has the media of its second image key only
           [TwoKeyProductData(2, FALSE) EXCEPT !.media = <<@[2]>>] }

\* the answers to the create request: rate-limited at most k times, then one more
\* answer
RECURSIVE CreateScripts(_)
CreateScripts(k) ==
    IF k = 0 THEN {<<r>> : r \in CreateResp}
    ELSE {<<r>> : r \in CreateResp \ {"rate_limited"}}
         \cup {<<"rate_limited">> \o t : t \in CreateScripts(k - 1)}

Remotes ==
    [ create : CreateScripts(r_max), upload : Resp,
      publish : {"ok", "user_errors", "rate_limited", "network"},
      lookup : Resp, bind : [1..2 -> {"ok", "user_errors", "rate_limited", "network"}] ]

InitSubmit ==
    /\ spc = "start"
    /\ s_product \in ProductDatas
    /\ submitted = NotSubmitted
    /\ r_max \in 0..1
    /\ IdleButS

\* a call of create_or_update_product
CreateOrUpdateProduct ==
    /\ spc = "start"
    /\ \E remote \in Remotes : submitted' = create_or_update_product(s_product, remote)
    /\ spc' = "done"
    /\ UNCHANGED <<s_product, notS>>

NextSubmit == CreateOrUpdateProduct
SpecSubmit == InitSubmit /\ [][NextSubmit]_vars

-----------------------------------------------------------------------------
(* The batch loop over group ids                                            *)

MaxGroups == 3

Metal14KYellow == [stamp |-> T14K, color |-> <<"Y", "E", "L", "L", "O", "W">>, code |-> T14K]

\* what the database holds for a group id: rows, no rows, or the query fails
DbEntries ==
    { [status |-> "rows", products |-> <<Row(1, CatRing, Metal14KYellow, <<"0", ".", "5">>, <<"7">>)>>],
      [status |-> "rows", products |-> <<Row(1, CatRing, Metal14KYellow, <<"0", ".", "5">>, <<"7">>),
                                         Row(2, CatRing, Metal14KYellow, <<"0", ".", "5">>, <<"a", "d", "j">>)>>],
      [status |-> "rows", products |-> <<>>],
      [status |-> "error", products |-> <<>>] }

\* DatabaseManager.get_group_data: None (here <<>>) when the group has no rows
get_group_data(entry) ==
    IF entry.status = "error" THEN Raise ELSE Value(entry.products)

\* the product handed on by _process_single_group_id: no image fields are added
ToProductData(product) ==
    [NoProductData EXCEPT !.variants = [i \in DOMAIN product.variants |->
                                           [sku |-> product.variants[i].sku]]]

ProcessingResult(group_id, success, error_message, variants_created) ==
    [ group_id |-> group_id, success |-> success, error_message |-> error_message,
      variants_created |-> variants_created ]

\* how _process_single_group_id ends: it raises (message = the exception's text) or
\* returns a success result; remote = what its submission did, if it got that far
Outcome(raised, message, variants_created, remote) ==
    [ raised |-> raised, message |-> message, variants_created |-> variants_created,
      remote |-> remote ]

\* a processor that submits whatever validation reports
Never_Blocks(errors) == FALSE

\* "if validation_errors:" -- a non-empty list of errors is true
Blocks(errors) == errors > 0

\* steps 3 and 4 of _process_single_group_id, from the shopify_data the
\* transformation returned: validation, the dry-run return, submission, the result
process_transformed(shopify_data, dry, remotes) ==
    IF Blocks(validation_errors(shopify_data))
    THEN {Outcome(TRUE, "Data validation failed", 0, NotSubmitted)}
    ELSE IF dry
    THEN {Outcome(FALSE, NULL, Len(shopify_data.variants), NotSubmitted)}
    ELSE { LET shopify_result == create_or_update_product(ToProductData(shopify_data), remote)
           IN  IF shopify_result.raised
               THEN Outcome(TRUE, shopify_result.error.kind, 0, shopify_result)
               \* shopify_result.get('product', {}) is None: .get('id') raises
               ELSE IF ~shopify_result.product
               THEN Outcome(TRUE, "AttributeError", 0, shopify_result)
               ELSE Outcome(FALSE, NULL, Len(shopify_data.variants), shopify_result) :
           remote \in remotes }

\* _process_single_group_id: the ways it can end for what the database holds
process_single_group_id(entry, dry) ==
    LET data == get_group_data(entry)
    IN  IF data.raised THEN {Outcome(TRUE, "Query execution failed", 0, NotSubmitted)}
        ELSE IF data.value = <<>> THEN {Outcome(TRUE, "No data found", 0, NotSubmitted)}
        ELSE LET shopify_data == transform_group_data(data.value)
             IN  IF shopify_data.raised # NULL
                 THEN {Outcome(TRUE, shopify_data.raised, 0, NotSubmitted)}
                 ELSE process_transformed(shopify_data.product, dry, Remotes)

\* the entry process_group_ids appends for a group: the result returned, or the
\* failure result made of the exception
ResultOf(group_id, outcome) ==
    IF outcome.raised THEN ProcessingResult(group_id, FALSE, outcome.message, 0)
    ELSE ProcessingResult(group_id, TRUE, NULL, outcome.variants_created)

\* a loop without the except clause: every exception leaves process_group_ids
EscapesUncaught(outcome) == TRUE

\* "except Exception as e": no exception the group's processing raises passes it by
Escapes(outcome) == FALSE

GroupIdPool == {"G1", "G2", "G3"}

InitBatch ==
    /\ bpc = "loop"
    /\ \E n \in 1..MaxGroups : group_ids \in [1..n -> GroupIdPool]
    /\ dry_run \in BOOLEAN
    /\ db \in [GroupIdPool -> DbEntries]
    /\ results = <<>>
    /\ r_max = 1
    /\ IdleButB

\* one pass of the for loop of process_group_ids: the group is processed, and its
\* result, or the failure result made of its exception, is appended
ProcessGroup ==
    /\ bpc = "loop"
    /\ Len(results) < Len(group_ids)
    /\ LET group_id == group_ids[Len(results) + 1]
       IN  \E outcome \in process_single_group_id(db[group_id], dry_run) :
              IF outcome.raised /\ Escapes(outcome)
              THEN bpc' = "raised" /\ results' = <<>>
              ELSE /\ bpc' = bpc
                   /\ results' = Append(results, ResultOf(group_id, outcome))
    /\ UNCHANGED <<group_ids, dry_run, db, notB>>

\* the loop is over: return results
ReturnResults ==
    /\ bpc = "loop"
    /\ Len(results) = Len(group_ids)
    /\ bpc' = "done"
    /\ UNCHANGED <<group_ids, dry_run, db, results, notB>>

NextBatch == ProcessGroup \/ ReturnResults
SpecBatch == InitBatch /\ [][NextBatch]_vars

-----------------------------------------------------------------------------
(* The batch loop from validation on                                        *)

MaxTransformed == 2

OneOptionValue == <<OptionValue(AttrSize, <<"7", ".", "0">>)>>
VariantOf(sku, optionValues) == [optionValues |-> optionValues, sku |-> sku]

\* what a transformation may hand to validation: with or without title, variants,
\* SKUs, option values, and with complete or incomplete metafields
ShopifyDataPool ==
    { [ title |-> title, variants |-> variants, productOptions |-> <<>>,
        metafields |-> metafields ] :
        title \in {<<>>, <<"R", "i", "n", "g">>},
        variants \in { <<>>,
                       <<VariantOf(<<"1">>, OneOptionValue)>>,
                       <<VariantOf(<<"1">>, OneOptionValue), VariantOf(<<>>, OneOptionValue)>>,
                       <<VariantOf(<<"1">>, OneOptionValue), VariantOf(<<"2">>, <<>>)>> },
        metafields \in { <<>>, <<required_fields>>, <<required_fields \ {"value"}>> } }

\* the remote's answers to the requests of a product without images
PlainRemotes ==
    [ create : CreateScripts(r_max), upload : {"ok"}, publish : {"ok", "user_errors", "network"},
      lookup : {"ok"}, bind : {[i \in 1..2 |-> "ok"]} ]

InitGroup ==
    /\ gpc = "loop"
    /\ \E n \in 1..MaxTransformed : shopify_datas \in [1..n -> ShopifyDataPool]
    /\ g_dry_run \in BOOLEAN
    /\ g_results = <<>>
    /\ g_submitted = <<>>
    /\ r_max \in 0..1
    /\ IdleButG

\* one pass of the for loop of process_group_ids for a group whose transformation
\* returned: the group id of a group is its position in the list
ProcessTransformed ==
    /\ gpc = "loop"
    /\ Len(g_results) < Len(shopify_datas)
    /\ LET group_id == Len(g_results) + 1
       IN  \E outcome \in process_transformed(shopify_datas[group_id], g_dry_run, PlainRemotes) :
              /\ g_results' = Append(g_results, ResultOf(group_id, outcome))
              /\ g_submitted' = Append(g_submitted, outcome.remote)
    /\ UNCHANGED <<gpc, shopify_datas, g_dry_run, notG>>

\* the loop is over: return results
ReturnGroupResults ==
    /\ gpc = "loop"
    /\ Len(g_results) = Len(shopify_datas)
    /\ gpc' = "done"
    /\ UNCHANGED <<shopify_datas, g_dry_run, g_results, g_submitted, notG>>

NextGroup == ProcessTransformed \/ ReturnGroupResults
SpecGroup == InitGroup /\ [][NextGroup]_vars

\* the retry engine alone, or at work inside the submissions of a batch
InitRetryOrGroup == InitRetry \/ InitGroup
NextRetryOrGroup == NextRetry \/ NextGroup
SpecRetryOrGroup == InitRetryOrGroup /\ [][NextRetryOrGroup]_vars

-----------------------------------------------------------------------------
(* The worker pool of fetch_images_for_group                                *)

MaxPoolRows == 3

\* a work list with one item per row that has a key
PerRow_collect_image_skus(products) ==
    LET having == SelectSeq(products, LAMBDA product : product.Image_SKU # <<>>)
    IN  [i \in DOMAIN having |->
            [image_sku |-> having[i].Image_SKU, product_skus |-> <<having[i].No_>>]]

RECURSIVE CollectFrom(_, _)
\* the loop of collect_image_skus: a row without key is skipped, a new key gets an
\* item of its own, a known key has the row id appended to its item
CollectFrom(products, image_sku_mapping) ==
    IF products = <<>> THEN image_sku_mapping
    ELSE LET row_image_sku == products[1].Image_SKU
             known == {i \in DOMAIN image_sku_mapping :
                          image_sku_mapping[i].image_sku = row_image_sku}
         IN  IF row_image_sku = <<>> THEN CollectFrom(Tail(products), image_sku_mapping)
             ELSE IF known = {}
             THEN CollectFrom(Tail(products),
                      Append(image_sku_mapping,
                             [image_sku |-> row_image_sku,
                              product_skus |-> <<products[1].No_>>]))
             ELSE CollectFrom(Tail(products),
                      [i \in DOMAIN image_sku_mapping |->
                          IF i \in known
                          THEN [image_sku_mapping[i] EXCEPT
                                   !.product_skus = Append(@, products[1].No_)]
                          ELSE image_sku_mapping[i]])

\* ImageHandler.collect_image_skus: the items of the returned dict, in insertion order
collect_image_skus(products) == CollectFrom(products, <<>>)

PoolKeys == {Key827749, Key1102192}

InitPool ==
    /\ wpc = "start"
    /\ \E n \in 1..MaxPoolRows :
          \E keys \in [1..n -> PoolKeys \cup {<<>>}] :
              w_products = [i \in 1..n |-> [No_ |-> IntText(i), Image_SKU |-> keys[i]]]
    /\ w_mapping = <<>>
    /\ w_tasks = <<>>
    /\ w_cache \in SUBSET PoolKeys
    /\ w_max \in 1..2
    /\ IdleButW

\* collect_image_skus, then the executor.submit of fetch_images_for_group: one task
\* per item of image_sku_mapping
SubmitTasks ==
    /\ wpc = "start"
    /\ w_mapping' = collect_image_skus(w_products)
    /\ w_tasks' = [i \in DOMAIN w_mapping' |-> "queued"]
    /\ wpc' = "pool"
    /\ UNCHANGED <<w_products, w_cache, w_max, notW>>

\* the tasks a worker thread is running
Running == {i \in DOMAIN w_tasks : w_tasks[i] \in {"check", "fetch", "store"}}

\* a free worker takes a queued task
StartTask ==
    /\ wpc = "pool" /\ Cardinality(Running) < w_max
    /\ \E i \in DOMAIN w_tasks :
          /\ w_tasks[i] = "queued"
          /\ w_tasks' = [w_tasks EXCEPT ![i] = "check"]
    /\ UNCHANGED <<wpc, w_products, w_mapping, w_cache, w_max, notW>>

\* "if image_sku in self.image_cache: return self.image_cache[image_sku]"
CheckCache ==
    /\ wpc = "pool"
    /\ \E i \in DOMAIN w_tasks :
          /\ w_tasks[i] = "check"
          /\ w_tasks' = [w_tasks EXCEPT ![i] = IF w_mapping[i].image_sku \in w_cache
                                               THEN "done" ELSE "fetch"]
    /\ UNCHANGED <<wpc, w_products, w_mapping, w_cache, w_max, notW>>

\* self.s3_client.fetch_images_for_sku(image_sku) returns, or raises and ends the task
FetchReturns ==
    /\ wpc = "pool"
    /\ \E i \in DOMAIN w_tasks : \E raised \in BOOLEAN :
          /\ w_tasks[i] = "fetch"
          /\ w_tasks' = [w_tasks EXCEPT ![i] = IF raised THEN "done" ELSE "store"]
    /\ UNCHANGED <<wpc, w_products, w_mapping, w_cache, w_max, notW>>

\* self.image_cache[image_sku] = images
StoreInCache ==
    /\ wpc = "pool"
    /\ \E i \in DOMAIN w_tasks :
          /\ w_tasks[i] = "store"
          /\ w_cache' = w_cache \cup {w_mapping[i].image_sku}
          /\ w_tasks' = [w_tasks EXCEPT ![i] = "done"]
    /\ UNCHANGED <<wpc, w_products, w_mapping, w_max, notW>>

\* every future is completed: the with block ends and fetch_images_for_group returns
PoolDone ==
    /\ wpc = "pool"
    /\ \A i \in DOMAIN w_tasks : w_tasks[i] = "done"
    /\ wpc' = "done"
    /\ UNCHANGED <<w_products, w_mapping, w_tasks, w_cache, w_max, notW>>

NextPool == SubmitTasks \/ StartTask \/ CheckCache \/ FetchReturns \/ StoreInCache \/ PoolDone
SpecPool == InitPool /\ [][NextPool]_vars

-----------------------------------------------------------------------------
(* Pacing of the remote calls                                               *)

MaxSubmissions == 2

\* 1.0 / self.requests_per_second, in milliseconds
min_interval(rps) == 1000 \div rps

\* RateLimiter.wait_if_needed called at current_time: the time at which it returns,
\* after the sleep it takes if the last request time is too recent
wait_if_needed(current_time, last, rps) ==
    LET time_since_last == current_time - last
    IN  IF time_since_last < min_interval(rps)
        THEN current_time + (min_interval(rps) - time_since_last)
        ELSE current_time

\* a remote call of one kind, made at time start and answered at time end
Request(kind, start, end) == [kind |-> kind, start |-> start, end |-> end]

RpsPool == {1, 2, 5}
\* how long the remote takes to answer, and how long the process does other things
\* between two submissions
Durations == {0, 300}
Gaps == {0, 100, 2000}
\* the Retry-After header of a 429 answer
RetryAfterPool == {0, 1, 2}
InitPace ==
    /\ ppc = "enter"
    /\ now = 10000         \* time.time() when the run starts: far from 0
    /\ last_request_time = 0
    /\ requests_per_second \in RpsPool
    /\ requests = <<>>
    /\ p_attempt = 0
    /\ p_count = 1
    /\ r_max \in 0..1
    /\ IdleButP

\* create_or_update_product is entered: self.rate_limiter.wait_if_needed()
WaitIfNeeded ==
    /\ ppc = "enter"
    /\ now' = wait_if_needed(now, last_request_time, requests_per_second)
    /\ last_request_time' = now'
    /\ p_attempt' = 0
    /\ ppc' = "create"
    /\ UNCHANGED <<requests_per_second, requests, p_count, notP>>

\* one invocation of _execute_graphql_mutation by execute_with_retry, with the sleep
\* that follows a rate limit when attempts are left
CreateCall ==
    /\ ppc = "create"
    /\ \E d \in Durations : \E resp \in {"ok", "user_errors", "rate_limited", "http_error"} :
       \E h \in RetryAfterPool : \E r \in {0, MaxJitter} :
          /\ requests' = Append(requests, Request("create", now, now + d))
          /\ IF resp = "ok"
             THEN now' = now + d /\ ppc' = "publish" /\ p_attempt' = p_attempt
             ELSE IF resp = "rate_limited" /\ p_attempt # r_max
             THEN /\ now' = now + d + calculate_delay(p_attempt, Some(h), r)
                  /\ p_attempt' = p_attempt + 1
                  /\ ppc' = "create"
             ELSE now' = now + d /\ ppc' = "left" /\ p_attempt' = p_attempt
    /\ UNCHANGED <<last_request_time, requests_per_second, p_count, notP>>

\* the product was created: _publish_to_online_store posts its request
PublishCall ==
    /\ ppc = "publish"
    /\ \E d \in Durations :
          /\ requests' = Append(requests, Request("publish", now, now + d))
          /\ now' = now + d
    /\ ppc' = "left"
    /\ UNCHANGED <<last_request_time, requests_per_second, p_attempt, p_count, notP>>

\* create_or_update_product has returned or raised; later the next group's
\* product is submitted
NextSubmission ==
    /\ ppc = "left"
    /\ p_count < MaxSubmissions
    /\ \E gap \in Gaps : now' = now + gap
    /\ p_count' = p_count + 1
    /\ ppc' = "enter"
    /\ UNCHANGED <<last_request_time, requests_per_second, requests, p_attempt, notP>>

NextPace == WaitIfNeeded \/ CreateCall \/ PublishCall \/ NextSubmission
SpecPace == InitPace /\ [][NextPace]_vars

-----------------------------------------------------------------------------
(* Batches of image fetches on one ImageHandler                             *)

MaxBatches == 2

Dir110219 == construct_s3_path(Key110219)
S3Object(fname, width, height) == [s3_key |-> Dir110219 \o fname, width |-> width, height |-> height]

\* the objects that may lie under the prefix the two keys share: a good image of the
\* first key, an image of the first key whose dimensions cannot be read, and a good
\* image of the second key
ObjectPool ==
    { S3Object(File1102192, Some(800), Some(800)),
      S3Object(<<"1", "1", "0", "2", "1", "9", "2", "-", "2", "a", "-", "1", "2", "3", "4", "5", ".", "j", "p", "g">>, None, None),
      S3Object(File1102193, Some(800), Some(800)) }

\* collect_image_skus results: image key -> the row ids that use it, in dict order
Mappings ==
    { <<[image_sku |-> Key1102192, product_skus |-> <<<<"1">>>>]>>,
      <<[image_sku |-> Key1102192, product_skus |-> <<<<"1">>, <<"2">>>>]>>,
      <<[image_sku |-> Key1102192, product_skus |-> <<<<"1">>>>],
        [image_sku |-> Key1102193, product_skus |-> <<<<"2">>>>]>>,
      <<[image_sku |-> Key1102192, product_skus |-> <<<<"2">>>>]>>,
      <<[image_sku |-> Key1102193, product_skus |-> <<<<"1">>>>]>> }

InitImages ==
    /\ ipc = "between"
    /\ bucket \in SUBSET ObjectPool
    /\ image_cache = EmptyImageMap
    /\ fetch_calls = <<>>
    /\ cache_writes = <<>>
    /\ missing_log = <<>>
    /\ batch = NoBatch
    /\ history = <<>>
    /\ IdleButI

\* fetch_images_for_group is called for the next group: one task per key is submitted
FetchImagesForGroup ==
    /\ ipc = "between"
    /\ Len(history) < MaxBatches
    /\ \E mapping \in Mappings :
          batch' = [ group_id |-> Len(history) + 1, image_sku_mapping |-> mapping,
                     pending |-> DOMAIN mapping, did |-> EmptyImageMap,
                     image_data_map |-> EmptyImageMap ]
    /\ ipc' = "batch"
    /\ UNCHANGED <<bucket, image_cache, fetch_calls, cache_writes, missing_log, history, notI>>

\* log_missing_images for each row id of the key
MissingEntries(group_id, key, product_skus) ==
    [i \in DOMAIN product_skus |->
        [ group_id |-> group_id, product_sku |-> product_skus[i], image_sku |-> key,
          s3_path |-> construct_s3_path(key) ]]

\* a worker runs _fetch_images_for_sku_cached for one key of the batch, and the
\* collecting loop stores its result, or [] for its exception
FetchImagesForSkuCached ==
    /\ ipc = "batch"
    /\ \E i \in batch.pending : \E outcome \in S3Outcomes :
          LET key == batch.image_sku_mapping[i].image_sku
              product_skus == batch.image_sku_mapping[i].product_skus
              images == fetch_images_for_sku(key, bucket, outcome)
          IN  IF key \in DOMAIN image_cache
              THEN /\ batch' = [batch EXCEPT
                                  !.pending = @ \ {i},
                                  !.did = Put(@, key, "cache"),
                                  !.image_data_map = CollectResult(@, key, Value(image_cache[key]))]
                   /\ UNCHANGED <<image_cache, fetch_calls, cache_writes, missing_log>>
              ELSE /\ fetch_calls' = Append(fetch_calls, key)
                   /\ batch' = [batch EXCEPT !.pending = @ \ {i},
                                             !.did = Put(@, key, outcome),
                                             !.image_data_map = CollectResult(@, key, images)]
                   /\ IF images.raised
                      THEN UNCHANGED <<image_cache, cache_writes, missing_log>>
                      ELSE /\ missing_log' =
                                 IF images.value = <<>>
                                 THEN missing_log \o MissingEntries(batch.group_id, key, product_skus)
                                 ELSE missing_log
                           /\ image_cache' = Put(image_cache, key, images.value)
                           /\ cache_writes' = Append(cache_writes, key)
    /\ UNCHANGED <<ipc, bucket, history, notI>>

\* every task is collected: fetch_images_for_group returns image_data_map
GroupFetched ==
    /\ ipc = "batch"
    /\ batch.pending = {}
    /\ history' = Append(history, batch)
    /\ batch' = NoBatch
    /\ ipc' = "between"
    /\ UNCHANGED <<bucket, image_cache, fetch_calls, cache_writes, missing_log, notI>>

NextImages == FetchImagesForGroup \/ FetchImagesForSkuCached \/ GroupFetched
SpecImages == InitImages /\ [][NextImages]_vars

-----------------------------------------------------------------------------
(* One call of fetch_images_for_sku                                         *)

NumberedFile(key, number) ==
    key \o <<"-">> \o number \o <<"a", "-", "1", "2", "3", "4", "5", ".", "j", "p", "g">>

\* objects under the prefix the two keys share: images of the first key numbered 1,
\* 0 and 10, one that is too small, one whose dimensions cannot be read, and an
\* image of the second key
FetchObjectPool ==
    { S3Object(File1102192, Some(800), Some(800)),
      S3Object(NumberedFile(Key1102192, <<"0">>), Some(800), Some(800)),
      S3Object(NumberedFile(Key1102192, <<"1", "0">>), Some(1200), Some(800)),
      S3Object(NumberedFile(Key1102192, <<"2">>), Some(800), Some(100)),
      S3Object(NumberedFile(Key1102192, <<"3">>), None, None),
      S3Object(File1102193, Some(800), Some(800)) }

InitFetch ==
    /\ fpc = "start"
    /\ f_objects \in SUBSET FetchObjectPool
    /\ f_sku \in {Key1102192, Key1102193}
    /\ f_result = Value(<<>>)
    /\ IdleButF

FetchImagesForSku ==
    /\ fpc = "start"
    /\ \E outcome \in S3Outcomes : f_result' = fetch_images_for_sku(f_sku, f_objects, outcome)
    /\ fpc' = "done"
    /\ UNCHANGED <<f_objects, f_sku, notF>>

NextFetch == FetchImagesForSku
SpecFetch == InitFetch /\ [][NextFetch]_vars

-----------------------------------------------------------------------------
(* Properties                                                               *)

Retryable(e) == e.kind \in {"RateLimitError", "TemporaryError"}
AllRetryable == \A i \in DOMAIN calls : Retryable(calls[i])
RetryOver == rpc \in {"returned", "raised"}

\* C4: whenever the wrapped operation raised a rate-limit error that carries a hint
\* and the engine goes on to retry, the sleep it takes before the next invocation is
\* exactly the hinted duration, for every hint value (0 included)
C4_HintedSleepIsExact ==
    (rpc = "sleep" /\ caught.kind = "RateLimitError" /\ caught.hint # None)
        => sleeps[Len(sleeps)] = 1000 * caught.hint[1]

\* C5: when every attempt raises a rate-limit or transient error the call ends: the
\* attempts are bounded by the budget, the engine never stalls before it is over,
\* and it is over by re-raising the very error of the last attempt, never by
\* returning
C5_ExhaustedReraisesOriginal ==
    /\ attempt <= r_max
    /\ Len(calls) <= r_max + 1
    /\ (~RetryOver => ENABLED NextRetry)
    /\ (AllRetryable => rpc # "returned")
    /\ (AllRetryable /\ RetryOver) =>
            /\ Len(calls) = r_max + 1
            /\ r_out = Raised(calls[Len(calls)])

C5_Witness ==
    /\ rpc = "raised" /\ AllRetryable
    /\ r_max = 2 /\ Len(calls) = 3 /\ Len(sleeps) = 2
    /\ calls[1].kind # calls[2].kind

\* C9: the storage prefix is baseDir, then the first six characters of the key,
\* right-padded with "0", in three 2-character segments each followed by "/"; it
\* depends on the first six characters only
C9_LocatePrefix ==
    dpc = "located" =>
        LET ch(i) == IF i <= Len(image_sku) THEN image_sku[i] ELSE "0"
        IN  /\ s3_path = base_directory \o
                    <<"/", ch(1), ch(2), "/", ch(3), ch(4), "/", ch(5), ch(6), "/">>
            /\ (image_sku = Key827749 => Str(s3_path) = "sorted-media/82/77/49/")
            /\ (image_sku = Key11 => Str(s3_path) = "sorted-media/11/00/00/")
            /\ \A c \in KeyAlphabet :
                    Len(image_sku) >= 6 => construct_s3_path(Append(image_sku, c)) = s3_path

C9_Witness ==
    dpc = "located" /\ image_sku = Key11 /\ Str(s3_path) = "sorted-media/11/00/00/"

\* the pattern of C10, read off the name from left to right: after "{key}-" come
\* digits and the variation suffix up to the next "-", then digits, one ".", and an
\* extension of word characters
FitsPattern(fname, key) ==
    /\ StartsWith(fname, key \o <<"-">>)
    /\ LET rest == SubSeq(fname, Len(key) + 2, Len(fname))
           hy == {i \in DOMAIN rest : rest[i] = "-"}
           dt == {i \in DOMAIN rest : rest[i] = "."}
       IN  /\ Cardinality(hy) = 1
           /\ Cardinality(dt) = 1
           /\ LET h == CHOOSE i \in hy : TRUE
                  d == CHOOSE i \in dt : TRUE
                  ns == Len(variation_suffix)
              IN  /\ h - ns >= 2
                  /\ SubSeq(rest, h - ns, h - 1) = variation_suffix
                  /\ AllDigits(SubSeq(rest, 1, h - ns - 1))
                  /\ h < d - 1
                  /\ AllDigits(SubSeq(rest, h + 1, d - 1))
                  /\ AllWord(SubSeq(rest, d + 1, Len(rest)))
                  /\ Lower(SubSeq(rest, d, Len(rest))) \in accepted_extensions


\* C10: a name is accepted for a key only if it starts with "{key}-" and fits the
\* pattern with an accepted extension (case-insensitively); the two names of the
\* example are accepted and rejected for key 1102192; no name is accepted for two keys
C10_AcceptedOnlyForOwnKey ==
    dpc = "named" =>
        /\ name_ok => FitsPattern(filename, image_sku)
        /\ (image_sku = Key1102192 /\ filename = File1102192) => name_ok
        /\ (image_sku = Key1102192 /\ filename = File1102193) => ~name_ok
        /\ name_ok => \A k \in NameKeys \ {image_sku} : ~AcceptedByName(filename, k)

C10_Witness ==
    /\ dpc = "named" /\ ~name_ok
    /\ image_sku = Key1102192 /\ filename = File1102193
    /\ AcceptedByName(filename, Key1102193)


\* the key of the variant a row gives under the attributes of its group
RowKey(products, attrs, i) ==
    combination_key(apply_dynamic_attributes(map_variant(products[i]), products[i], attrs))

\* C1: after transform_group_data has processed a group, the product's variant list
\* holds no two variants with the same CombinationKey, and of the rows that give the
\* same key exactly the earliest one is retained.
C1_RetainedKeysDistinctFirstWins ==
    tpc = "done" =>
        /\ transformed.raised = NULL
        /\ LET variants == transformed.product.variants
               attrs == transformed.dynamic.attrs
           IN  /\ \A a, b \in DOMAIN variants :
                     a # b => combination_key(variants[a]) # combination_key(variants[b])
               /\ {variants[a].sku : a \in DOMAIN variants}
                    = { group_data[i].No_ :
                          i \in {j \in DOMAIN group_data :
                                   \A k \in 1..(j - 1) :
                                       RowKey(group_data, attrs, k) # RowKey(group_data, attrs, j)} }

\* the names of a map's items, in iteration order
Names(attrs) == [i \in DOMAIN attrs |-> attrs[i].name]

\* the attributes with at least two distinct normalized values, in priority order
VaryingInPriorityOrder(products) ==
    (IF Cardinality(stone_weights(products)) >= 2 THEN <<AttrCaratWeight>> ELSE <<>>)
    \o (IF Cardinality(metal_types(products)) >= 2 THEN <<AttrMetalType>> ELSE <<>>)
    \o (IF Cardinality(ring_sizes(products)) >= 2 THEN <<AttrSize>> ELSE <<>>)

\* C2: for every group get_dynamic_variant_attributes returns a map that holds an
\* attribute of {Carat Weight, Metal Type, Size} iff the group has at least two
\* distinct normalized values of it, iterating in the order Carat Weight, Metal
\* Type, Size.
C2_DynamicIffTwoDistinctValues ==
    tpc = "done" =>
        /\ transformed.dynamic.raised = NULL
        /\ Names(transformed.dynamic.attrs) = VaryingInPriorityOrder(group_data)

\* C6: process_group_ids gives one result per input group id, in input order, each
\* marked success or failure; an exception raised for one group makes a failure
\* result for that group alone, and the groups after it are still processed.
C6_OneResultPerGroupInOrder ==
    /\ bpc # "raised"
    /\ Len(results) <= Len(group_ids)
    /\ \A i \in DOMAIN results :
          /\ results[i].group_id = group_ids[i]
          /\ results[i].success \in BOOLEAN
          /\ results[i].success = (results[i].error_message = NULL)
          /\ \A outcome \in process_single_group_id(db[group_ids[i]], dry_run) :
                results[i].success = ~outcome.raised
    /\ (bpc = "loop" => ENABLED NextBatch)
    /\ (bpc = "done" => Len(results) = Len(group_ids))

C6_Witness ==
    /\ bpc = "done"
    /\ Len(results) = 3
    /\ ~results[1].success /\ results[1].error_message = "No data found"
    /\ ~results[2].success /\ results[2].error_message = "TypeError"
    /\ results[3].group_id # results[1].group_id

\* C7: once the create call has returned a product, no failure of the media upload,
\* the media lookup or the image-to-variant binding (error response, rate limit,
\* network exception) makes create_or_update_product raise: it returns the product.
C7_ImageFailuresNeverRaise ==
    spc = "done" /\ submitted.product => ~submitted.raised

C7_Witness ==
    /\ spc = "done" /\ submitted.product /\ ~submitted.raised
    /\ submitted.upload = "ok" /\ submitted.lookup = "ok"
    /\ Len(submitted.bindings) = 2
    /\ submitted.bindings[1].resp = "network" /\ ~submitted.bindings[1].bound
    /\ submitted.bindings[2].resp = "ok" /\ submitted.bindings[2].bound

\* how often x occurs in the sequence q
Count(q, x) == Cardinality({i \in DOMAIN q : q[i] = x})

ImageKeys == {Key1102192, Key1102193}

\* C3: within one run, whatever batches of fetch_images_for_group have run,
\* S3Client.fetch_images_for_sku has been invoked at most once per image key and no
\* key's cache entry has been written twice.
C3_FetchedAtMostOncePerKey ==
    \A key \in ImageKeys : Count(fetch_calls, key) <= 1 /\ Count(cache_writes, key) <= 1

\* the key's location holds at least one object, and none passes validation
NoneValid(key) ==
    /\ \E o \in bucket : StartsWith(o.s3_key, construct_s3_path(key))
    /\ fetch_images_for_sku(key, bucket, "ok").value = <<>>

\* C8: for every finished batch and every image key in it whose location holds
\* objects of which none passes validation, the batch maps the key to no records
\* and the log holds exactly one missing-image entry per row id given for the key
\* in that batch, naming the group id, the row id, the key and the path.
C8_OneMissingEntryPerRowPerBatch ==
    \A b \in DOMAIN history :
        \A i \in DOMAIN history[b].image_sku_mapping :
            LET key == history[b].image_sku_mapping[i].image_sku
                entries == MissingEntries(history[b].group_id, key,
                                          history[b].image_sku_mapping[i].product_skus)
            IN  NoneValid(key) =>
                    /\ history[b].image_data_map[key] = <<>>
                    /\ \A e \in DOMAIN entries : Count(missing_log, entries[e]) = 1

-----------------------------------------------------------------------------
(* Normalization of ring sizes                                              *)

T7 == <<"7">>
T70 == <<"7", ".", "0">>
T75 == <<"7", ".", "5">>

\* rows i and j differ in nothing but their id and the text of their ring size
SameButSize(products, i, j) ==
    [products[i] EXCEPT !.No_ = <<>>, !.Ring_Size = <<>>]
        = [products[j] EXCEPT !.No_ = <<>>, !.Ring_Size = <<>>]

\* the group of the example: sizes "7" and "7.5", then a third row whose size is
\* again 7.0 (written "7" or "7.0"), all else equal
SevenSevenHalfSeven(products) ==
    /\ Len(products) = 3
    /\ products[1].Ring_Size = T7
    /\ products[2].Ring_Size = T75
    /\ products[3].Ring_Size \in {T7, T70}
    /\ SameButSize(products, 1, 2)
    /\ SameButSize(products, 1, 3)

\* C11: for rows with ring sizes "7" and "7.5" (otherwise identical) followed by a
\* row whose size normalizes to "7.0", Size is dynamic with the values
\* ["7.0", "7.5"], the third row gets the CombinationKey of the first, and the
\* product transform_group_data gives holds the variants of rows 1 and 2 only.
C11_SizesNormalizedThirdRowDropped ==
    (tpc = "done" /\ SevenSevenHalfSeven(group_data)) =>
        /\ transformed.dynamic.raised = NULL
        /\ transformed.dynamic.attrs = <<Option(AttrSize, <<T70, T75>>)>>
        /\ RowKey(group_data, transformed.dynamic.attrs, 3)
             = RowKey(group_data, transformed.dynamic.attrs, 1)
        /\ transformed.raised = NULL
        /\ [i \in DOMAIN transformed.product.variants |-> transformed.product.variants[i].sku]
             = <<group_data[1].No_, group_data[2].No_>>

-----------------------------------------------------------------------------
(* The result of one batch of fetches                                       *)

KeysOf(mapping) == {mapping[i].image_sku : i \in DOMAIN mapping}

\* C12: a call of fetch_images_for_group that has returned has collected every task
\* it submitted, and its map has exactly the input image keys as domain; a key
\* whose fetch raised is mapped to [], and every other key is mapped to its own
\* records (those its listing gave, or those the cache held), whatever happened to
\* the other keys of the batch.
C12_BatchCompleteFailuresIsolated ==
    /\ (ipc = "batch" /\ batch.pending # {} => ~ENABLED GroupFetched)
    /\ \A b \in DOMAIN history :
          LET h == history[b]
          IN  /\ h.pending = {}
              /\ DOMAIN h.image_data_map = KeysOf(h.image_sku_mapping)
              /\ \A key \in KeysOf(h.image_sku_mapping) :
                    /\ h.did[key] = "raises" => h.image_data_map[key] = <<>>
                    /\ h.did[key] \in {"ok", "client_error"} =>
                          h.image_data_map[key]
                            = fetch_images_for_sku(key, bucket, h.did[key]).value
                    /\ h.did[key] = "cache" => h.image_data_map[key] = image_cache[key]
                    /\ \A r \in DOMAIN h.image_data_map[key] :
                          h.image_data_map[key][r].image_sku = key

C12_Witness ==
    /\ Len(history) >= 1
    /\ history[1].did = (Key1102192 :> "raises") @@ (Key1102193 :> "ok")
    /\ history[1].image_data_map[Key1102192] = <<>>
    /\ Len(history[1].image_data_map[Key1102193]) = 1

-----------------------------------------------------------------------------
(* Validation before submission                                             *)

\* C13: a group whose shopify_data makes validate_shopify_data report an error (no
\* title, no variant, a variant without SKU or without option values, a metafield
\* lacking a required field) has no create request issued for it and gets a
\* failure result, and the loop goes on to the groups after it.
C13_InvalidNeverSubmitted ==
    /\ \A i \in DOMAIN g_results :
          validation_errors(shopify_datas[i]) > 0 =>
              /\ g_submitted[i].creates = 0
              /\ ~g_results[i].success
    /\ \A i \in DOMAIN g_results :
          (g_results[i].success /\ ~g_dry_run) => g_submitted[i].creates >= 1
    /\ (gpc = "loop" => ENABLED NextGroup)
    /\ (gpc = "done" => Len(g_results) = Len(shopify_datas))

C13_Witness ==
    /\ gpc = "done" /\ ~g_dry_run /\ Len(g_results) = 2
    /\ shopify_datas[1].title # <<>> /\ shopify_datas[1].variants # <<>>
    /\ shopify_datas[1].metafields = <<required_fields \ {"value"}>>
    /\ validation_errors(shopify_datas[1]) = 1
    /\ ~g_results[1].success /\ g_submitted[1].creates = 0
    /\ g_results[2].success /\ g_submitted[2].creates = 2

-----------------------------------------------------------------------------
(* Spacing of the remote calls                                              *)

\* C14: of any two consecutive remote calls made by the process, the second starts
\* no earlier than 1/requestsPerSecond after the first one ended.
C14_MinSpacingBetweenCalls ==
    \A k \in 1..(Len(requests) - 1) :
        requests[k + 1].start - requests[k].end >= min_interval(requests_per_second)

-----------------------------------------------------------------------------
(* Errors that are not retried                                              *)

\* the results a group can get, given what its own transformation returned
OwnResults(i) ==
    { ResultOf(i, outcome) :
        outcome \in process_transformed(shopify_datas[i], g_dry_run, PlainRemotes) }

\* C15: when the wrapped operation raises an error that is neither a rate-limit nor
\* a transient error, execute_with_retry ends at once by raising that error: no
\* sleep follows it and the operation is not invoked again, however many attempts
\* came before. In a batch, a create request that ends so is the last one of its
\* group, which gets a failure result, and every other group gets a result of its
\* own processing.
C15_OtherErrorRaisedAtOnce ==
    /\ (calls # <<>> /\ calls[Len(calls)].kind = "Exception") =>
          /\ rpc = "raised"
          /\ r_out = Raised(calls[Len(calls)])
          /\ Len(sleeps) = Len(calls) - 1
          /\ ~ENABLED NextRetry
    /\ \A i \in DOMAIN g_results :
          /\ (g_submitted[i].raised /\ g_submitted[i].error.kind = "Exception"
                /\ g_submitted[i].error.id > 0) =>
                /\ g_submitted[i].creates = g_submitted[i].error.id
                /\ ~g_submitted[i].product
                /\ g_results[i] = ProcessingResult(i, FALSE, "Exception", 0)
          /\ g_results[i] \in OwnResults(i)
    /\ (gpc = "loop" => ENABLED NextGroup)

C15_Witness ==
    /\ rpc = "raised" /\ r_max = 3
    /\ Len(calls) = 3 /\ Len(sleeps) = 2
    /\ calls[1].kind = "RateLimitError" /\ calls[2].kind = "TemporaryError"
    /\ calls[3].kind = "Exception"
    /\ r_out = Raised(calls[3])

-----------------------------------------------------------------------------
(* The attempt budget                                                       *)

\* the invocations so far that raised a rate-limit or a transient error
RetryableCalls == {i \in DOMAIN calls : Retryable(calls[i])}

\* C16 as stated: execute_with_retry invokes the wrapped operation no more times
\* than config.processing.max_retries.
C16_AtMostMaxRetriesInvocations ==
    Len(calls) <= r_max

\* C16, amended: rate-limit and transient errors draw on one budget -- every one of
\* them, of either kind, is followed by exactly one sleep until max_retries sleeps
\* were taken -- and for any interleaving of the two kinds the wrapped operation is
\* invoked at most max_retries + 1 times; the engine re-raises a retryable error
\* exactly when it was raised by invocation number max_retries + 1.
C16_SharedBudgetRetriesPlusOne ==
    /\ Len(calls) <= r_max + 1
    /\ Len(sleeps) <= r_max
    /\ Len(sleeps) = Cardinality(RetryableCalls \ {r_max + 1})
    /\ (calls # <<>> /\ Retryable(calls[Len(calls)])) =>
          IF Len(calls) = r_max + 1
          THEN rpc = "raised" /\ r_out = Raised(calls[Len(calls)])
          ELSE rpc = "sleep" \/ (rpc = "call" /\ attempt = Len(calls))

C16_Witness ==
    /\ rpc = "raised" /\ r_max = 3 /\ Len(calls) = 4
    /\ calls[1].kind = "TemporaryError" /\ calls[2].kind = "RateLimitError"
    /\ calls[3].kind = "TemporaryError" /\ calls[4].kind = "RateLimitError"
    /\ Len(sleeps) = 3

-----------------------------------------------------------------------------
(* Rate limits on the calls after the create call                           *)

\* how many requests just before request k were the same call, rate-limited
RECURSIVE RetriesBefore(_, _)
RetriesBefore(posted, k) ==
    IF k > 1 /\ posted[k - 1].call = posted[k].call /\ posted[k - 1].target = posted[k].target
             /\ posted[k - 1].resp = "rate_limited"
    THEN 1 + RetriesBefore(posted, k - 1)
    ELSE 0

\* C17: whenever a remote call (create, media upload, publish, variant binding) is
\* answered with a rate limit and attempts are left in the budget, the same call is
\* issued again.
C17_RateLimitedCallIssuedAgain ==
    spc = "done" =>
        \A k \in DOMAIN submitted.posted :
            (/\ submitted.posted[k].call \in {"create", "upload", "publish", "bind"}
             /\ submitted.posted[k].resp = "rate_limited"
             /\ RetriesBefore(submitted.posted, k) < r_max) =>
                /\ k < Len(submitted.posted)
                /\ submitted.posted[k + 1].call = submitted.posted[k].call
                /\ submitted.posted[k + 1].target = submitted.posted[k].target

-----------------------------------------------------------------------------
(* The image bound to a variant                                             *)

\* the record to bind for a list of records: the one numbered 1, else the first
ChosenRecord(images) ==
    IF \E i \in DOMAIN images : images[i].variation_number = 1
    THEN images[CHOOSE i \in DOMAIN images :
                    /\ images[i].variation_number = 1
                    /\ \A j \in 1..(i - 1) : images[j].variation_number # 1]
    ELSE images[1]

\* C18: every binding request the binder makes for a variant names the media whose
\* label is "{key} - Image {n}" for the variant's own image key and the number n of
\* the record chosen from that key's list (number 1, else the first), also when the
\* product's media come from several image keys.
C18_BoundMediaIsOwnKeysImage ==
    spc = "done" =>
        \A b \in DOMAIN submitted.bindings :
            LET binding == submitted.bindings[b]
                key == VariantToImageSku(s_product.image_sku_mapping)[binding.variant]
                chosen == ChosenRecord(s_product.image_data_map[key])
            IN  s_product.media[binding.media].alt
                    = key \o SepImage \o IntText(chosen.variation_number)

-----------------------------------------------------------------------------
(* Variants the binder leaves alone                                         *)

\* the variation numbers of the media the binder finds at the remote
RemoteNumbers ==
    IF submitted.upload = "ok" /\ submitted.lookup \in {"ok", "user_errors"}
    THEN { n \in 1..3 : \E i \in DOMAIN s_product.media :
                \E key \in DOMAIN s_product.image_data_map :
                    s_product.media[i].alt = key \o SepImage \o IntText(n) }
    ELSE {}

\* the variant has no image key, or its key has no records, or the record chosen
\* for it has no media at the remote
Unbindable(variant) ==
    LET keys == VariantToImageSku(s_product.image_sku_mapping)
    IN  \/ variant.sku \notin DOMAIN keys
        \/ s_product.image_data_map[keys[variant.sku]] = <<>>
        \/ ChosenRecord(s_product.image_data_map[keys[variant.sku]]).variation_number
              \notin RemoteNumbers

BoundVariants == {submitted.bindings[b].variant : b \in DOMAIN submitted.bindings}

-----------------------------------------------------------------------------
(* The option list of the create request                                    *)

NamePositions(options) == {<<options[i].name, options[i].position>> : i \in DOMAIN options}

\* C20: for every group the classifier accepts, a payload is built, and the option
\* list of the productSet input names exactly the group's dynamic attributes, each
\* at the position _create_product_options gave it, i.e. its 1-based rank in the
\* order Carat Weight, Metal Type, Size.
C20_WireOptionsAreClassifierOptions ==
    (tpc = "done" /\ transformed.dynamic.raised = NULL) =>
        /\ transformed.raised = NULL
        /\ NamePositions(prepare_product_set_mutation(transformed.product).productOptions)
              = NamePositions(create_product_options(transformed.dynamic.attrs))

-----------------------------------------------------------------------------
(* The option names of the assembled variants                               *)

OptionNames(variant) == {variant.optionValues[i].optionName : i \in DOMAIN variant.optionValues}

\* C21: every option name on every assembled variant is a dynamic attribute of the
\* group, i.e. one with at least two distinct values over the group's rows; an
\* attribute with fewer never appears, whatever the row holds, and no option value
\* of map_variant is left on the variant.
C21_OnlyDynamicAttributesOnVariants ==
    \A i \in DOMAIN a_variants :
        /\ OptionNames(a_variants[i]) \subseteq Range(VaryingInPriorityOrder(a_products))
        /\ Len(a_variants[i].optionValues) <= Len(a_attrs)

C21_Witness ==
    /\ apc = "done" /\ Len(a_variants) = 2
    /\ a_products[1].Item_Category_Code = CatRing
    /\ a_products[1].Metal_Stamp # <<>> /\ a_products[1].Ring_Size # <<>>
    /\ \A i \in DOMAIN a_variants : OptionNames(a_variants[i]) = {AttrCaratWeight}

-----------------------------------------------------------------------------
(* Rows without option values                                               *)

\* the rows that get no option value from the dynamic attributes
ZeroOptionRows == {i \in DOMAIN a_products : DynamicValues(a_attrs, a_products[i]) = <<>>}

\* C22: every row of a group that produces zero option values has its variant in
\* the assembler's output, where output validation then rejects it.
C22_ZeroOptionRowsYieldVariants ==
    apc = "done" =>
        \A i \in ZeroOptionRows :
            \E v \in DOMAIN a_variants :
                /\ a_variants[v].sku = a_products[i].No_
                /\ a_variants[v].optionValues = <<>>
                /\ validation_errors([title |-> <<"x">>, variants |-> a_variants,
                                      productOptions |-> a_options, metafields |-> <<>>]) > 0

-----------------------------------------------------------------------------
(* Ring sizes that are not numbers                                          *)

\* the rows whose ring size is present and cannot be parsed as a number
RawSizeRows ==
    {i \in DOMAIN a_products :
        a_products[i].Ring_Size # <<>> /\ ParseFloat(a_products[i].Ring_Size) = None}

\* C23: when a row's ring size cannot be parsed as a number, classification of the
\* group completes without raising; when Size is dynamic, the raw text is among the
\* values of the Size option, and it is the Size value of that row's variant.
C23_RawSizeUsedVerbatim ==
    (apc # "start" /\ RawSizeRows # {}) =>
        /\ apc # "raised"
        /\ Multiple(ring_sizes(a_products)) =>
              \A i \in RawSizeRows :
                  /\ \E k \in DOMAIN a_attrs :
                        /\ a_attrs[k].name = AttrSize
                        /\ a_products[i].Ring_Size \in Range(a_attrs[k].values)
                  /\ \A v \in DOMAIN a_variants :
                        a_variants[v].sku = a_products[i].No_ =>
                            OptionValue(AttrSize, a_products[i].Ring_Size)
                                \in Range(a_variants[v].optionValues)

-----------------------------------------------------------------------------
(* The transformation of a group                                            *)

\* C24: for every group with at least one row transform_group_data returns, without
\* raising, a product that carries the variant list assembled from the rows and the
\* option list made from the classifier's attributes.
C24_TransformReturnsAssembledProduct ==
    (tpc = "done" /\ Len(group_data) >= 1) =>
        /\ transformed.raised = NULL
        /\ transformed.product.variants
              = AssembleVariants(group_data, transformed.dynamic.attrs, <<>>, {})
        /\ transformed.product.variants # <<>>
        /\ transformed.product.productOptions
              = create_product_options(transformed.dynamic.attrs)

-----------------------------------------------------------------------------
(* Images on the way of a submitted group                                   *)

\* the groups that were submitted and whose create call gave a product
CreatedGroups ==
    {i \in DOMAIN g_results : g_results[i].success /\ g_submitted[i].creates > 0}

-----------------------------------------------------------------------------
(* The work list of a batch                                                 *)

\* C26: within one fetch_images_for_group batch the work list holds each image key
\* of the rows exactly once, so at no time two tasks for the same key are running:
\* no two workers fetch the same key or touch the same cache entry together,
\* whatever the worker count and the interleaving.
C26_WorkListKeysOnceNoSharedEntry ==
    wpc \in {"pool", "done"} =>
        /\ \A key \in {w_products[r].Image_SKU : r \in DOMAIN w_products} \ {<<>>} :
              Cardinality({i \in DOMAIN w_mapping : w_mapping[i].image_sku = key}) = 1
        /\ \A i, j \in Running :
              i # j => w_mapping[i].image_sku # w_mapping[j].image_sku

C26_Witness ==
    /\ wpc = "pool"
    /\ \E r, q \in DOMAIN w_products : r # q /\ w_products[r].Image_SKU = w_products[q].Image_SKU
                                       /\ w_products[r].Image_SKU # <<>>
    /\ \E i, j \in DOMAIN w_tasks : w_tasks[i] = "fetch" /\ w_tasks[j] = "store"

-----------------------------------------------------------------------------
(* The records of a key                                                     *)

\* the digits between "{key}-" and the variation suffix of a name that fits the pattern
CapturedNumber(fname, key) ==
    LET rest == SubSeq(fname, Len(key) + 2, Len(fname))
        h == CHOOSE i \in DOMAIN rest : rest[i] = "-"
    IN  DecimalValue(SubSeq(rest, 1, h - Len(variation_suffix) - 1))

\* C27: every record fetch_images_for_sku returns for a key has a name that passed
\* the extension, prefix and pattern checks, the positive integer captured by the
\* pattern as its variation number, a width and a height of at least the configured
\* minimums, and a URL; the list is in ascending order of variation number.
C27_RecordsValidAndSorted ==
    (fpc = "done" /\ ~f_result.raised) =>
        LET images == f_result.value
        IN  /\ \A i \in DOMAIN images :
                  /\ FitsPattern(images[i].filename, f_sku)
                  /\ images[i].variation_number = CapturedNumber(images[i].filename, f_sku)
                  /\ images[i].variation_number > 0
                  /\ images[i].width >= min_width /\ images[i].height >= min_height
                  /\ images[i].url # <<>>
            /\ \A i, j \in DOMAIN images :
                  i < j => images[i].variation_number <= images[j].variation_number

-----------------------------------------------------------------------------
(* The length of the waits                                                  *)

\* the waits computed by the backoff formula: the k-th wait follows failed attempt
\* number k - 1, a transient error or a rate limit without hint
BackoffWaits ==
    {k \in DOMAIN sleeps :
        \/ calls[k].kind = "TemporaryError"
        \/ calls[k].kind = "RateLimitError" /\ calls[k].hint = None}

\* C28: after a rate-limit error without hint, and after every transient error,
\* the wait that follows failed attempt a is at least base_delay * 2^a and at most
\* 1.1 * base_delay * 2^a; of two such waits in a row the later is at least 2 / 1.1
\* times the earlier.
C28_BackoffWithinBounds ==
    /\ \A k \in BackoffWaits :
          /\ sleeps[k] >= base_delay * Pow2(k - 1)
          /\ 10 * sleeps[k] <= 11 * base_delay * Pow2(k - 1)
    /\ \A k \in BackoffWaits :
          (k + 1) \in BackoffWaits => 11 * sleeps[k + 1] >= 20 * sleeps[k]

C28_Witness ==
    /\ BackoffWaits = {1, 2, 3}
    /\ sleeps = <<1100, 2000, 4400>>
    /\ calls[1].kind = "RateLimitError" /\ calls[2].kind = "TemporaryError"

-----------------------------------------------------------------------------
(* Option values and the option list                                        *)

\* C29: for every variant of the assembled product, every option value on it is
\* one of the values the product's option list declares for the option of that name.
C29_VariantValuesAreDeclared ==
    apc = "done" =>
        \A v \in DOMAIN a_variants : \A i \in DOMAIN a_variants[v].optionValues :
            \E k \in DOMAIN a_options :
                /\ a_options[k].name = a_variants[v].optionValues[i].optionName
                /\ a_variants[v].optionValues[i].name \in Range(a_options[k].values)

C29_Witness ==
    /\ apc = "done" /\ Len(a_variants) = 2 /\ Len(a_options) = 3
    /\ a_products[1].Ring_Size = <<"7">> /\ a_products[2].Ring_Size = <<"7", ".", "5">>
    /\ a_products[1].Stone_Weight__Carats_ = <<"1">>
    /\ OptionValue(AttrSize, <<"7", ".", "0">>) \in Range(a_variants[1].optionValues)
    /\ OptionValue(AttrCaratWeight, <<"1", ".", "0", "0">> \o CTW)
          \in Range(a_variants[1].optionValues)

-----------------------------------------------------------------------------
(* What is reported as a success                                            *)

\* the kinds of request the submission of group i posted
PostedCalls(i) == {g_submitted[i].posted[k].call : k \in DOMAIN g_submitted[i].posted}

====
